---- MODULE Spec2Model ----
(***************************************************************************)
(* Model of the decision-and-execution core of airi-minecraft:             *)
(*   - EventManager (bus) and ReflexManager,                               *)
(*   - Brain (serialized decision loop with an event queue),               *)
(*   - TaskManager (primary / secondary task bookkeeping),                 *)
(*   - Orchestrator (task pipeline with preemption and conflict policy),   *)
(*   - TaskExecutor (executePlan / executeActions).                        *)
(*   - LeakyBucket, AttentionDetector and PerceptionPipeline,              *)
(*   - the cancellation tokens of the tasks,                               *)
(*   - the Orchestrator that takes one user intent at a time (lock),       *)
(*   - the Orchestrator that queues user intents behind the current task.  *)
(* Every asynchronous function is cut at its awaits: one action runs the   *)
(* code between two suspension points, as the single-threaded event loop   *)
(* does.  A call that settles without suspending is continued in the same  *)
(* action, because only microtasks run before its awaiter resumes.         *)
(***************************************************************************)
EXTENDS Integers, Sequences, FiniteSets, Bags, TLC

\* ---------------------------------------------------------------- bounds
MaxEvents == 3      \* events (stimuli and feedback) the Brain may see
MaxActions == 2     \* action instructions in one decision
MaxTasks == 3       \* tasks created through the TaskManager's public methods
MaxIntents == 2     \* user intents the Orchestrator may see
MaxRaceIntents == 3 \* user intents in the three-task specification
MaxRaceSteps == 1   \* steps in one plan in the three-task specification
MaxBusEvents == 2   \* events on a bus that feeds Brain and Orchestrator
MaxSteps == 2       \* steps in one plan
MaxCalls == 2       \* direct executePlan calls
MaxBatches == 2     \* direct executeActions calls
MaxSubs == 2        \* subscriptions registered with the EventManager
MaxEmits == 2       \* events emitted through the EventManager
MaxBucketOps == 4   \* tick and add calls on one LeakyBucket
MaxCollects == 4    \* raw events offered to the PerceptionPipeline
MaxTicks == 2       \* PerceptionPipeline.tick calls
MaxDestroys == 1    \* PerceptionPipeline.destroy calls
MaxLockIntents == 3 \* user intents the lock-based Orchestrator may see
MaxTokenTasks == 2  \* tasks whose tokens get callbacks
MaxCallbacks == 1   \* callbacks registered with one cancellation token
MaxCancels == 2     \* calls of cancel() on a token that has callbacks
MaxPad == 1         \* whitespace characters on either side of a text
MaxReflexIntents == 1 \* user intents the Reflex layer sees on its own
MaxQueueIntents == 3 \* user intents the queueing Orchestrator may see

\* ------------------------------------------------------ program constants
HIGH_PRIORITY_THRESHOLD == 8
MAX_RETRIES == 3
maxHistorySize == 10
DefaultPriority == 0

NoPriority == -1    \* event.priority is undefined
NoTask == 0         \* primaryTask is null
PriorityInputs == {NoPriority, 7, 8}
Contents == {<<"H", "i", " ">>, <<"g", "o">>}   \* a greeting and another text

VARIABLES
  initialized,  \* TaskExecutor.initialized
  bus,          \* EventManager: number of events emitted and the last one delivered
  limit,        \* how many events of each kind the environment will produce
  brain,        \* Brain: queue, isProcessing and the turns / dispatches in flight
  tm,           \* TaskManager: primaryTask, secondaryTasks, taskHistory, task objects
  orch,         \* Orchestrator: position of every executeTaskWithCancellation call
  calls,        \* TaskExecutor.executePlan called directly: plan, token, position
  sent,         \* bag of messages sent through source.reply or bot.chat
  exec,         \* TaskExecutor.executeActions: one record per dispatched instruction
  em,           \* EventManager: subscriptions and the deliveries of the last emit
  bucket,       \* LeakyBucket: value and the result of the last add
  pipe,         \* PerceptionPipeline: buffer, the detector's buckets, what was ingested
  lock,         \* lock-based Orchestrator: isProcessing and every handleUserIntent call
  qorch         \* queueing Orchestrator: its TaskManager, event queue and calls

vars == <<initialized, bus, limit, brain, tm, orch, calls, sent, exec, em, bucket, pipe, lock,
          qorch>>

\* ------------------------------------------------------------------ bus
NoEvent == [type |-> "none", priority |-> NoPriority, handled |-> FALSE]

BusInit == bus = [stimuli |-> 0, intents |-> 0, last |-> NoEvent]

\* EventManager.emit: a falsy priority (undefined or 0) becomes 0.
EmitPriority(p) == IF p = NoPriority \/ p = 0 THEN DefaultPriority ELSE p

\* A text is the sequence of its characters.
Whitespace == {" ", "\t"}

Lower(c) ==
  CASE c = "H" -> "h" [] c = "I" -> "i" [] c = "E" -> "e" [] c = "L" -> "l"
    [] c = "O" -> "o" [] c = "Y" -> "y" [] OTHER -> c

\* String.prototype.toLowerCase.
toLowerCase(text) == [i \in DOMAIN text |-> Lower(text[i])]

\* String.prototype.trim: whitespace is removed at both ends only.
RECURSIVE trimStart(_)
trimStart(text) ==
  IF text # <<>> /\ Head(text) \in Whitespace THEN trimStart(Tail(text)) ELSE text

RECURSIVE trimEnd(_)
trimEnd(text) ==
  IF text # <<>> /\ text[Len(text)] \in Whitespace
  THEN trimEnd(SubSeq(text, 1, Len(text) - 1)) ELSE text

trim(text) == trimEnd(trimStart(text))

\* The greeting test on the content as it comes, without toLowerCase and trim.
IsGreeting_asIs(content) ==
  content = <<"h", "i">> \/ content = <<"h", "e", "l", "l", "o">>

\* ReflexManager.handleUserIntent: the greeting test on the event content.
IsGreeting(content) ==
  LET lowerContent == trim(toLowerCase(content))
  IN lowerContent = <<"h", "i">> \/ lowerContent = <<"h", "e", "l", "l", "o">>

\* source.reply when the source has a reply sink, bot.chat otherwise.
Via(hasReply) == IF hasReply THEN "reply" ELSE "chat"

Message(task, kind, hasReply) == [task |-> task, kind |-> kind, via |-> Via(hasReply)]

Send(s, m) == s (+) SetToBag({m})

\* ---------------------------------------------------------------- Brain
\* goal stands for the working memory (goal, thought, strategy): the turn
\* that last patched it.  oracle tells how the oracle call of the last turn
\* ended ("failed": transport error, empty or malformed response), rejected
\* whether that turn ended with item.reject, the error going to the promise
\* the subscriber awaits.
BrainInit ==
  brain = [queue |-> <<>>, isProcessing |-> FALSE, turns |-> {},
           immediates |-> 0, enq |-> <<>>, taken |-> <<>>,
           nextEvent |-> 1, goal |-> 0, oracle |-> "none", rejected |-> FALSE]

\* processQueue without the isProcessing guard.
processQueue_noGuard(b) ==
  IF Len(b.queue) = 0 THEN b
  ELSE [b EXCEPT !.isProcessing = TRUE,
                 !.queue = Tail(b.queue),
                 !.turns = b.turns \cup {Head(b.queue).id},
                 !.taken = Append(b.taken, Head(b.queue).id)]

\* processQueue taking the first queued event of the highest priority.
processQueue_byPriority(b) ==
  IF b.isProcessing \/ Len(b.queue) = 0 THEN b
  ELSE LET q == b.queue
           k == CHOOSE i \in 1..Len(q) :
                  /\ \A j \in 1..Len(q) : q[j].priority <= q[i].priority
                  /\ \A j \in 1..(i - 1) : q[j].priority < q[i].priority
       IN [b EXCEPT !.isProcessing = TRUE,
                    !.queue = SubSeq(q, 1, k - 1) \o SubSeq(q, k + 1, Len(q)),
                    !.turns = b.turns \cup {q[k].id},
                    !.taken = Append(b.taken, q[k].id)]

\* Brain.processQueue up to the first await of processEvent (the oracle call).
processQueue(b) ==
  IF b.isProcessing \/ Len(b.queue) = 0 THEN b
  ELSE [b EXCEPT !.isProcessing = TRUE,
                 !.queue = Tail(b.queue),
                 !.turns = b.turns \cup {Head(b.queue).id},
                 !.taken = Append(b.taken, Head(b.queue).id)]

\* Brain.enqueueEvent: push, then processQueue.  The event gets the next id.
enqueueEvent(b, ev) ==
  LET e == [id |-> b.nextEvent, type |-> ev.type, priority |-> ev.priority,
            handled |-> ev.handled, status |-> ev.status]
  IN processQueue([b EXCEPT !.queue = Append(b.queue, e),
                            !.enq = Append(b.enq, e),
                            !.nextEvent = b.nextEvent + 1])

\* The stimulus subscriber without the test of the handled flag.
onStimulus_noCheck(b, ev) == enqueueEvent(b, ev)

\* The 'stimulus' subscriber registered by Brain.init.
onStimulus(b, ev) == IF ev.handled THEN b ELSE enqueueEvent(b, ev)

\* The finally block without the re-check of the queue.
processQueueFinally_noCheck(b) == [b EXCEPT !.isProcessing = FALSE]

\* The body of the finally block of processQueue.
processQueueFinally(b) ==
  [b EXCEPT !.isProcessing = FALSE,
            !.immediates = IF Len(b.queue) > 0 THEN b.immediates + 1 ELSE b.immediates]

\* Events the environment may still produce: every dispatch ever started
\* produces one feedback event.
BrainUsed == bus.stimuli + Len(exec.disp)

Budget ==
  IF limit.brain - BrainUsed < limit.total - BrainUsed - bus.intents
  THEN limit.brain - BrainUsed
  ELSE limit.total - BrainUsed - bus.intents

\* EventManager.emit of a 'stimulus' event; handled may have been set by the
\* producer or by a subscriber registered before the Brain.
Stimulus(p, h) ==
  /\ Budget > 0
  /\ LET ev == [type |-> "stimulus", priority |-> EmitPriority(p), handled |-> h,
                status |-> "none"]
     IN /\ brain' = onStimulus(brain, ev)
        /\ bus' = [bus EXCEPT !.stimuli = bus.stimuli + 1,
                              !.last = [type |-> "stimulus", priority |-> ev.priority,
                                        handled |-> h]]
  /\ UNCHANGED <<initialized, limit, tm, orch, calls, sent, exec, em, bucket, pipe, lock, qorch>>

\* The callback scheduled with setImmediate in the finally block.
Immediate ==
  /\ brain.immediates > 0
  /\ brain' = processQueue([brain EXCEPT !.immediates = brain.immediates - 1])
  /\ UNCHANGED <<initialized, bus, limit, tm, orch, calls, sent, exec, em, bucket, pipe, lock, qorch>>

\* ------------------------------------------- TaskExecutor.executeActions
\* One record per instruction passed to executeActions: its type, the batch it
\* came in and the events emitted for it so far.  tokens holds, per batch, the
\* state of the cancellation token ("none" when the call had no token), sizes
\* the number of instructions of the batch.
\* "physical" stands for both awaited kinds (performAction and sendMessage).
InstructionTypes == {"physical", "unknown"}

Batches == UNION {[1..n -> InstructionTypes] : n \in 0..MaxActions}

TokenStates == {"none", "live", "cancelled"}

ActionsInit == exec = [disp |-> <<>>, tokens |-> <<>>, sizes |-> <<>>]

Awaited(x) == {a \in DOMAIN x.disp : x.disp[a].events = <<"started">>}

\* The action:completed / action:failed listeners registered by Brain.init
\* with the failure listener missing.
onAction_successOnly(b, status) ==
  IF status = "failure" THEN b
  ELSE enqueueEvent(b, [type |-> "feedback", priority |-> NoPriority,
                        handled |-> FALSE, status |-> status])

\* The action:completed / action:failed listeners registered by Brain.init:
\* a feedback event with status success / failure is enqueued.
onAction(b, status) ==
  enqueueEvent(b, [type |-> "feedback", priority |-> NoPriority, handled |-> FALSE,
                   status |-> status])

\* The forEach callback that stops at the first instruction that fails at once.
dispatch_failFast(w, type, batch, cancelled) ==
  LET d == [type |-> type, batch |-> batch, events |-> <<>>]
      failed == \E a \in DOMAIN w.x.disp :
                  w.x.disp[a].batch = batch /\ w.x.disp[a].events = <<"started", "failed">>
  IN IF cancelled \/ failed THEN [w EXCEPT !.x.disp = Append(w.x.disp, d)]
     ELSE IF type = "unknown"
     THEN [w EXCEPT !.x.disp = Append(w.x.disp, [d EXCEPT !.events = <<"started", "failed">>]),
                    !.b = onAction(w.b, "failure")]
     ELSE [w EXCEPT !.x.disp = Append(w.x.disp, [d EXCEPT !.events = <<"started">>])]

\* The forEach callback of executeActions up to its await: nothing when the
\* token is cancelled; else action:started, then performAction / sendMessage
\* is awaited, or an unknown type throws and action:failed is emitted at once.
\* w.x is the executor's record, w.b the Brain (whose listeners run in emit).
dispatch(w, type, batch, cancelled) ==
  LET d == [type |-> type, batch |-> batch, events |-> <<>>]
  IN IF cancelled THEN [w EXCEPT !.x.disp = Append(w.x.disp, d)]
     ELSE IF type = "unknown"
     THEN [w EXCEPT !.x.disp = Append(w.x.disp, [d EXCEPT !.events = <<"started", "failed">>]),
                    !.b = onAction(w.b, "failure")]
     ELSE [w EXCEPT !.x.disp = Append(w.x.disp, [d EXCEPT !.events = <<"started">>])]

RECURSIVE forEachAction(_, _, _, _)
forEachAction(w, actions, batch, cancelled) ==
  IF Len(actions) = 0 THEN w
  ELSE forEachAction(dispatch(w, Head(actions), batch, cancelled), Tail(actions),
                     batch, cancelled)

\* TaskExecutor.executeActions(actions, cancellationToken): throws when the
\* executor is not initialized, else runs the callback for every instruction.
executeActions(w, actions, token, init) ==
  IF ~init THEN [w EXCEPT !.thrown = TRUE]
  ELSE forEachAction([w EXCEPT !.x.tokens = Append(w.x.tokens, token),
                                !.x.sizes = Append(w.x.sizes, Len(actions))],
                     actions, Len(w.x.tokens) + 1, token = "cancelled")

\* performAction / sendMessage of dispatch a settles: action:completed or
\* action:failed is emitted (the token is not looked at again).
settleAction(w, a, ok) ==
  [w EXCEPT !.x.disp[a].events = Append(w.x.disp[a].events,
                                        IF ok THEN "completed" ELSE "failed"),
            !.b = onAction(w.b, IF ok THEN "success" ELSE "failure")]

\* What the oracle call of Brain.decide can come to: the transport throws, the
\* response is empty, is not JSON, parses to a falsy value (decide or
\* processEvent give up: "no decision"), parses to a value without a
\* blackboard member, or parses to a decision.
OracleFailures == {"throw", "empty", "notJson", "falsy"}

OracleResults == OracleFailures \cup {"noBlackboard", "decision"}

\* processEvent after `await this.decide(...)`, on w = [b, x, thrown]: return
\* on no decision; blackboard.update (reading decision.blackboard throws a
\* TypeError when it is missing); executeActions when there are actions.
afterDecide(w, id, res, patch, actions, init) ==
  IF res \in OracleFailures THEN w
  ELSE IF res = "noBlackboard" THEN [w EXCEPT !.thrown = TRUE]
  ELSE LET w1 == IF patch THEN [w EXCEPT !.b.goal = id] ELSE w
       IN IF Len(actions) > 0 THEN executeActions(w1, actions, "none", init) ELSE w1

\* The oracle call of a turn settles: the rest of processEvent, then the
\* try / catch / finally of processQueue (item.resolve or item.reject).
DecideReturn(id, res, patch, actions) ==
  /\ id \in brain.turns
  /\ res # "decision" => ~patch /\ Len(actions) = 0
  /\ Len(actions) <= Budget
  /\ LET w0 == [b |-> [brain EXCEPT !.turns = brain.turns \ {id}], x |-> exec,
                thrown |-> FALSE]
         w1 == afterDecide(w0, id, res, patch, actions, initialized)
         b1 == [w1.b EXCEPT !.rejected = w1.thrown,
                            !.oracle = IF res = "decision" THEN "decided" ELSE "failed"]
     IN /\ brain' = processQueueFinally(b1)
        /\ exec' = w1.x
  /\ UNCHANGED <<initialized, bus, limit, tm, orch, calls, sent, em, bucket, pipe, lock, qorch>>

\* A dispatch of executeActions settles: action:completed or action:failed is
\* emitted and the Brain's listener enqueues a feedback event.
ActionDone(a, ok) ==
  /\ a \in Awaited(exec)
  /\ LET w == settleAction([b |-> brain, x |-> exec, thrown |-> FALSE], a, ok)
     IN brain' = w.b /\ exec' = w.x
  /\ UNCHANGED <<initialized, bus, limit, tm, orch, calls, sent, em, bucket, pipe, lock, qorch>>

\* executeActions called directly, with or without a cancellation token.
ExecuteActions(actions, token) ==
  /\ Len(exec.tokens) < limit.batches
  /\ Len(actions) <= Budget
  /\ LET w == executeActions([b |-> brain, x |-> exec, thrown |-> FALSE], actions,
                             token, initialized)
     IN brain' = w.b /\ exec' = w.x
  /\ UNCHANGED <<initialized, bus, limit, tm, orch, calls, sent, em, bucket, pipe, lock, qorch>>

\* token.cancel() by the owner of the token of batch n.
CancelActions(n) ==
  /\ n \in DOMAIN exec.tokens
  /\ exec.tokens[n] = "live"
  /\ exec' = [exec EXCEPT !.tokens[n] = "cancelled"]
  /\ UNCHANGED <<initialized, bus, limit, brain, tm, orch, calls, sent, em, bucket, pipe, lock, qorch>>

\* TaskExecutor.initialize / destroy.
Initialize ==
  /\ ~initialized
  /\ initialized' = TRUE
  /\ UNCHANGED <<bus, limit, brain, tm, orch, calls, sent, exec, em, bucket, pipe, lock, qorch>>

Destroy ==
  /\ initialized
  /\ initialized' = FALSE
  /\ UNCHANGED <<bus, limit, brain, tm, orch, calls, sent, exec, em, bucket, pipe, lock, qorch>>

\* ----------------------------------------------------------- TaskManager
\* A task object carries its cancellation token: isCancelled and runs, one
\* entry per callback registered with onCancelled, counting its invocations.
NewTaskManager ==
  [primaryTask |-> NoTask, secondaryTasks |-> {}, taskHistory |-> <<>>, tasks |-> <<>>]

TMInit == tm = NewTaskManager

\* TaskManager.getTaskById: the id when the task is active, NoTask (null) otherwise.
getTaskById(t, id) ==
  IF t.primaryTask = id /\ id # NoTask THEN id
  ELSE IF id \in t.secondaryTasks THEN id ELSE NoTask

\* addToHistory that evicts the newest entry.
addToHistory_dropNewest(t, id) ==
  IF \E i \in 1..Len(t.taskHistory) : t.taskHistory[i] = id THEN t
  ELSE LET h == Append(t.taskHistory, id)
       IN [t EXCEPT !.taskHistory = IF Len(h) > maxHistorySize
                                    THEN SubSeq(h, 1, maxHistorySize) ELSE h]

\* TaskManager.addToHistory: skip a task already archived, evict the oldest
\* entry beyond maxHistorySize.
addToHistory(t, id) ==
  IF \E i \in 1..Len(t.taskHistory) : t.taskHistory[i] = id THEN t
  ELSE LET h == Append(t.taskHistory, id)
       IN [t EXCEPT !.taskHistory = IF Len(h) > maxHistorySize THEN Tail(h) ELSE h]

\* createTask that makes every new task the primary one.
createTask_takeOver(t) ==
  LET id == Len(t.tasks) + 1
      task == [status |-> "idle", isCancelled |-> FALSE, hasPlan |-> FALSE, runs |-> <<>>]
      t1 == [t EXCEPT !.tasks = Append(t.tasks, task)]
  IN IF t.primaryTask = NoTask
     THEN [t1 EXCEPT !.primaryTask = id]
     ELSE [t1 EXCEPT !.primaryTask = id,
                     !.secondaryTasks = t.secondaryTasks \cup {t.primaryTask}]

\* createTask that also files a new primary task under secondaryTasks.
createTask_both(t) ==
  LET id == Len(t.tasks) + 1
      task == [status |-> "idle", isCancelled |-> FALSE, hasPlan |-> FALSE, runs |-> <<>>]
      t1 == [t EXCEPT !.tasks = Append(t.tasks, task),
                      !.secondaryTasks = t.secondaryTasks \cup {id}]
  IN IF t.primaryTask = NoTask THEN [t1 EXCEPT !.primaryTask = id] ELSE t1

\* TaskManager.createTask; the id of the new task is Len(tasks) + 1.
createTask(t) ==
  LET id == Len(t.tasks) + 1
      task == [status |-> "idle", isCancelled |-> FALSE, hasPlan |-> FALSE, runs |-> <<>>]
      t1 == [t EXCEPT !.tasks = Append(t.tasks, task)]
  IN IF t.primaryTask = NoTask
     THEN [t1 EXCEPT !.primaryTask = id]
     ELSE [t1 EXCEPT !.secondaryTasks = t.secondaryTasks \cup {id}]

\* TaskManager.updateTaskStatus.
updateTaskStatus(t, id, status) ==
  IF getTaskById(t, id) = NoTask THEN t
  ELSE [t EXCEPT !.tasks[id].status = status]

\* TaskManager.setTaskPlan.
setTaskPlan(t, id) ==
  IF getTaskById(t, id) = NoTask THEN t
  ELSE [t EXCEPT !.tasks[id].hasPlan = TRUE]

\* token.onCancelled(callback): callbacks.push(callback).
onCancelled(token) == [token EXCEPT !.runs = Append(token.runs, 0)]

\* token.cancel(): isCancelled = true, then every registered callback is called.
cancel(token) ==
  [token EXCEPT !.isCancelled = TRUE,
                !.runs = [i \in DOMAIN token.runs |-> token.runs[i] + 1]]

\* cancelTask that leaves the token alone.
cancelTask_statusOnly(t, id) ==
  IF getTaskById(t, id) = NoTask THEN t
  ELSE addToHistory([t EXCEPT !.tasks[id].status = "cancelling"], id)

\* TaskManager.cancelTask: status cancelling, token.cancel(), archive; the
\* task stays in its slot until completeTask.
cancelTask(t, id) ==
  IF getTaskById(t, id) = NoTask THEN t
  ELSE addToHistory([t EXCEPT !.tasks[id] = cancel([t.tasks[id] EXCEPT
                                                      !.status = "cancelling"])], id)

\* TaskManager.cancelPrimaryTask.
cancelPrimaryTask(t) ==
  IF t.primaryTask # NoTask THEN cancelTask(t, t.primaryTask) ELSE t

\* TaskManager.completeTask.
completeTask(t, id) ==
  IF getTaskById(t, id) = NoTask THEN t
  ELSE LET t1 == addToHistory(t, id)
       IN IF t1.primaryTask = id
          THEN [t1 EXCEPT !.primaryTask = NoTask]
          ELSE [t1 EXCEPT !.secondaryTasks = t1.secondaryTasks \ {id}]

\* Direct calls of the TaskManager's public methods, in any order.
CreateTask ==
  /\ Len(tm.tasks) < limit.tasks
  /\ tm' = createTask(tm)
  /\ UNCHANGED <<initialized, bus, limit, brain, orch, calls, sent, exec, em, bucket, pipe, lock, qorch>>

\* A client registers a callback with the token of an active task.
OnCancelled(id) ==
  /\ getTaskById(tm, id) # NoTask
  /\ Len(tm.tasks[id].runs) < limit.callbacks
  /\ tm' = [tm EXCEPT !.tasks[id] = onCancelled(tm.tasks[id])]
  /\ UNCHANGED <<initialized, bus, limit, brain, orch, calls, sent, exec, em, bucket, pipe, lock, qorch>>

\* Every call of token.cancel() calls the callbacks: the calls are counted up
\* to limit.cancels.
CanCancel(id) ==
  getTaskById(tm, id) # NoTask =>
    \A i \in DOMAIN tm.tasks[id].runs : tm.tasks[id].runs[i] < limit.cancels

CancelTask(id) ==
  /\ CanCancel(id)
  /\ tm' = cancelTask(tm, id)
  /\ UNCHANGED <<initialized, bus, limit, brain, orch, calls, sent, exec, em, bucket, pipe, lock, qorch>>

CancelPrimaryTask ==
  /\ CanCancel(tm.primaryTask)
  /\ tm' = cancelPrimaryTask(tm)
  /\ UNCHANGED <<initialized, bus, limit, brain, orch, calls, sent, exec, em, bucket, pipe, lock, qorch>>

CompleteTask(id) ==
  /\ tm' = completeTask(tm, id)
  /\ UNCHANGED <<initialized, bus, limit, brain, orch, calls, sent, exec, em, bucket, pipe, lock, qorch>>

TMNext ==
  \/ CreateTask
  \/ \E id \in 1..limit.tasks : CancelTask(id)
  \/ CancelPrimaryTask
  \/ \E id \in 1..limit.tasks : CompleteTask(id)

\* The same with clients that register callbacks with the tokens.
TokenNext ==
  \/ TMNext
  \/ \E id \in 1..limit.tasks : OnCancelled(id)

\* ---------------------------------------------------------- TaskExecutor
\* The plans PlanningAgentImpl.createPlan and adjustPlan produce.
NoActionPlan == [requiresAction |-> FALSE, steps |-> 0, status |-> "completed"]

ActionPlan(n) == [requiresAction |-> TRUE, steps |-> n, status |-> "pending"]

PlanInputs == {NoActionPlan} \cup {ActionPlan(n) : n \in 0..limit.steps}

\* What actionAgent.performAction(step) can do: resolve, reject with an
\* ActionError (any code), or reject with another error.
StepOutcomes == {"ok", "ActionError", "Error"}

TerminalStatus == {"completed", "failed", "cancelled"}

\* An executePlan call that has not been made yet.
NoCall(plan) ==
  [plan |-> plan, pos |-> "none", step |-> 0, error |-> "none", assigns |-> 0,
   started |-> <<>>, open |-> 0, init |-> FALSE, status0 |-> plan.status]

\* The loop head that leaves plan.status alone when the token is cancelled.
executeLoop_noMark(c, i, cancelled) ==
  IF i > c.plan.steps
  THEN [c EXCEPT !.plan.status = "completed", !.assigns = c.assigns + 1,
                 !.pos = "returned", !.step = 0]
  ELSE IF cancelled
  THEN [c EXCEPT !.pos = "returned", !.step = 0]
  ELSE [c EXCEPT !.pos = "step", !.step = i, !.started = Append(c.started, i),
                 !.open = c.open + 1]

\* The loop head without the poll of the token.
executeLoop_noPoll(c, i, cancelled) ==
  IF i > c.plan.steps
  THEN [c EXCEPT !.plan.status = "completed", !.assigns = c.assigns + 1,
                 !.pos = "returned", !.step = 0]
  ELSE [c EXCEPT !.pos = "step", !.step = i, !.started = Append(c.started, i),
                 !.open = c.open + 1]

\* executePlan from the head of the for loop, about to take step i, up to the
\* next await: the loop ends (completed), the poll finds the token cancelled,
\* or performAction(step i) is called.
executeLoop(c, i, cancelled) ==
  IF i > c.plan.steps
  THEN [c EXCEPT !.plan.status = "completed", !.assigns = c.assigns + 1,
                 !.pos = "returned", !.step = 0]
  ELSE IF cancelled
  THEN [c EXCEPT !.plan.status = "cancelled", !.assigns = c.assigns + 1,
                 !.pos = "returned", !.step = 0]
  ELSE [c EXCEPT !.pos = "step", !.step = i, !.started = Append(c.started, i),
                 !.open = c.open + 1]

\* TaskExecutor.executePlan from its entry to its first await (or its exit).
\* cancelled is cancellationToken?.isCancelled, init is this.initialized.
executePlan(plan, cancelled, init) ==
  LET c == [NoCall(plan) EXCEPT !.init = init]
  IN IF ~init THEN [c EXCEPT !.pos = "thrown", !.error = "Error"]
     ELSE IF ~plan.requiresAction THEN [c EXCEPT !.pos = "returned"]
     ELSE executeLoop([c EXCEPT !.plan.status = "in_progress"], 1, cancelled)

\* performAction settles: the next iteration on success, otherwise the inner
\* catch rethrows (whatever the error code) and the outer catch marks the plan
\* failed.
stepReturn(c, outcome, cancelled) ==
  IF outcome = "ok"
  THEN executeLoop([c EXCEPT !.open = c.open - 1], c.step + 1, cancelled)
  ELSE [c EXCEPT !.open = c.open - 1, !.plan.status = "failed",
                 !.assigns = c.assigns + 1, !.pos = "thrown", !.error = outcome,
                 !.step = 0]

Exited(c) == c.pos \in {"returned", "thrown"}

\* executePlan called directly, with or without a token.
ExecInit == calls = <<>>

ExecutePlan(plan, hasToken, isCancelled) ==
  /\ Len(calls) < limit.calls
  /\ hasToken \/ ~isCancelled
  /\ calls' = Append(calls, [c |-> executePlan(plan, isCancelled, initialized),
                             hasToken |-> hasToken, isCancelled |-> isCancelled])
  /\ UNCHANGED <<initialized, bus, limit, brain, tm, orch, sent, exec, em, bucket, pipe, lock, qorch>>

StepReturn(i, outcome) ==
  /\ i \in 1..Len(calls)
  /\ calls[i].c.pos = "step"
  /\ calls' = [calls EXCEPT ![i].c = stepReturn(calls[i].c, outcome, calls[i].isCancelled)]
  /\ UNCHANGED <<initialized, bus, limit, brain, tm, orch, sent, exec, em, bucket, pipe, lock, qorch>>

\* token.cancel() by the owner of the token while the call is suspended.
CancelToken(i) ==
  /\ i \in 1..Len(calls)
  /\ calls[i].hasToken /\ ~calls[i].isCancelled
  /\ calls[i].c.pos = "step"
  /\ calls' = [calls EXCEPT ![i].isCancelled = TRUE]
  /\ UNCHANGED <<initialized, bus, limit, brain, tm, orch, sent, exec, em, bucket, pipe, lock, qorch>>

ExecNext ==
  \/ \E plan \in PlanInputs, hasToken \in BOOLEAN, isCancelled \in BOOLEAN :
       ExecutePlan(plan, hasToken, isCancelled)
  \/ \E i \in DOMAIN calls, outcome \in StepOutcomes : StepReturn(i, outcome)
  \/ \E i \in DOMAIN calls : CancelToken(i)
  \/ Initialize
  \/ Destroy

\* ---------------------------------------------------------- Orchestrator
OrchInit == orch = <<>> /\ sent = EmptyBag

\* Orchestrator.shouldCancelPrimaryTask; emit has already set the priority.
shouldCancelPrimaryTask(t, priority) ==
  /\ t.primaryTask # NoTask
  /\ (IF priority = NoPriority THEN 5 ELSE priority) >= HIGH_PRIORITY_THRESHOLD

\* An executeTaskWithCancellation call works on w: the TaskManager (w.tm), the
\* call's own locals and history (w.o) and the messages sent (w.sent).
\* The end of the call without the completeTask of the finally block.
finishTask_noComplete(w, id, outcome) ==
  [w EXCEPT !.o.pc = "done", !.o.outcome = outcome,
            !.o.retryCount = 0, !.o.call = NoCall(NoActionPlan),
            !.o.planStatus = w.o.call.plan.status]

\* The finally block: completeTask; the call is over and its locals are gone
\* (planStatus keeps the status the last plan was left in).
finishTask(w, id, outcome) ==
  [w EXCEPT !.tm = completeTask(w.tm, id), !.o.pc = "done", !.o.outcome = outcome,
            !.o.retryCount = 0, !.o.call = NoCall(NoActionPlan),
            !.o.planStatus = w.o.call.plan.status]

\* The response phase entered without polling the token.
respondPhase_noPoll(w, id) ==
  [w EXCEPT !.tm = updateTaskStatus(w.tm, id, "responding"),
            !.o.pc = "responding", !.o.responding = TRUE]

\* Response generation phase, up to the await of the oracle.
respondPhase(w, id) ==
  IF w.tm.tasks[id].isCancelled THEN finishTask(w, id, "cancelled")
  ELSE [w EXCEPT !.tm = updateTaskStatus(w.tm, id, "responding"),
                 !.o.pc = "responding", !.o.responding = TRUE]

\* How an executePlan call ended, for the history of attempts.
AttemptResult(c) ==
  IF c.pos = "thrown" THEN c.error
  ELSE IF c.plan.status = "cancelled" THEN "cancelled" ELSE "ok"

\* The retry loop giving up one attempt later.
afterAttempt_extraTry(w, id) ==
  LET c == w.o.call
      w1 == [w EXCEPT !.o.attempts = Append(w.o.attempts, AttemptResult(c))]
  IN IF c.pos = "returned" THEN respondPhase(w1, id)
     ELSE IF w1.tm.tasks[id].isCancelled THEN finishTask(w1, id, "cancelled")
     ELSE IF c.error # "ActionError" THEN finishTask(w1, id, "failed")
     ELSE IF w1.o.retryCount + 1 > MAX_RETRIES
          THEN finishTask([w1 EXCEPT !.o.retryCount = w1.o.retryCount + 1], id, "failed")
          ELSE [w1 EXCEPT !.o.retryCount = w1.o.retryCount + 1, !.o.pc = "adjusting"]

\* The catch block re-planning after any error, ActionError or not.
afterAttempt_retryAll(w, id) ==
  LET c == w.o.call
      w1 == [w EXCEPT !.o.attempts = Append(w.o.attempts, AttemptResult(c))]
  IN IF c.pos = "returned" THEN respondPhase(w1, id)
     ELSE IF w1.tm.tasks[id].isCancelled THEN finishTask(w1, id, "cancelled")
     ELSE IF w1.o.retryCount + 1 >= MAX_RETRIES
          THEN finishTask([w1 EXCEPT !.o.retryCount = w1.o.retryCount + 1], id, "failed")
          ELSE [w1 EXCEPT !.o.retryCount = w1.o.retryCount + 1, !.o.pc = "adjusting"]

\* After `await executePlan(...)` in the retry loop: break on a normal return,
\* otherwise the catch block (cancelled: return; not an ActionError: rethrow;
\* retryCount++ and rethrow at MAX_RETRIES; else await adjustPlan).
afterAttempt(w, id) ==
  LET c == w.o.call
      w1 == [w EXCEPT !.o.attempts = Append(w.o.attempts, AttemptResult(c))]
  IN IF c.pos = "returned" THEN respondPhase(w1, id)
     ELSE IF w1.tm.tasks[id].isCancelled THEN finishTask(w1, id, "cancelled")
     ELSE IF c.error # "ActionError" THEN finishTask(w1, id, "failed")
     ELSE IF w1.o.retryCount + 1 >= MAX_RETRIES
          THEN finishTask([w1 EXCEPT !.o.retryCount = w1.o.retryCount + 1], id, "failed")
          ELSE [w1 EXCEPT !.o.retryCount = w1.o.retryCount + 1, !.o.pc = "adjusting"]

\* The head of the retry loop: the loop condition, the poll of the token, the
\* call of executePlan(currentPlan).
startAttempt(w, id, plan, init) ==
  IF w.o.retryCount >= MAX_RETRIES THEN respondPhase(w, id)
  ELSE IF w.tm.tasks[id].isCancelled THEN finishTask(w, id, "cancelled")
  ELSE LET c == executePlan(plan, w.tm.tasks[id].isCancelled, init)
           w1 == [w EXCEPT !.o.call = c, !.o.execCalls = w.o.execCalls + 1]
       IN IF c.pos = "step" THEN [w1 EXCEPT !.o.pc = "executing"]
          ELSE afterAttempt(w1, id)

\* The conflict policy without the test for another primary task.
afterPlan_noReject(w, id, plan, init) ==
  LET w1 == [w EXCEPT !.tm = setTaskPlan(w.tm, id), !.o.call = NoCall(plan),
                      !.o.planned = IF plan.requiresAction THEN "action" ELSE "talk"]
  IN IF w1.tm.tasks[id].isCancelled THEN finishTask(w1, id, "cancelled")
     ELSE IF plan.requiresAction
     THEN startAttempt([w1 EXCEPT !.tm = updateTaskStatus(w1.tm, id, "executing")],
                       id, plan, init)
     ELSE respondPhase(w1, id)

\* After `await createPlan(...)`: setTaskPlan, conflict resolution, then the
\* execution phase or, for a plan that needs no action, the response phase.
afterPlan(w, id, plan, init) ==
  LET w1 == [w EXCEPT !.tm = setTaskPlan(w.tm, id), !.o.call = NoCall(plan),
                      !.o.planned = IF plan.requiresAction THEN "action" ELSE "talk"]
  IN IF /\ plan.requiresAction
        /\ w1.tm.primaryTask # NoTask
        /\ w1.tm.primaryTask # id
     THEN finishTask([w1 EXCEPT !.sent = Send(w1.sent, Message(id, "busy", w1.o.hasReply)),
                                !.tm = completeTask(w1.tm, id)],
                     id, "rejected")
     ELSE IF w1.tm.tasks[id].isCancelled THEN finishTask(w1, id, "cancelled")
     ELSE IF plan.requiresAction
     THEN startAttempt([w1 EXCEPT !.tm = updateTaskStatus(w1.tm, id, "executing")],
                       id, plan, init)
     ELSE respondPhase(w1, id)

\* The reply sent without polling the token after the oracle call.
afterResponse_noPoll(w, id, res) ==
  IF res = "throw" THEN finishTask(w, id, "failed")
  ELSE IF res = "text"
  THEN finishTask([w EXCEPT !.sent = Send(w.sent, Message(id, "response", w.o.hasReply))],
                  id, "responded")
  ELSE finishTask(w, id, "silent")

\* After the oracle call of the response phase: reply unless cancelled or the
\* response is empty; a throw goes to the catch block.
afterResponse(w, id, res) ==
  IF res = "throw" THEN finishTask(w, id, "failed")
  ELSE IF w.tm.tasks[id].isCancelled THEN finishTask(w, id, "cancelled")
  ELSE IF res = "text"
  THEN finishTask([w EXCEPT !.sent = Send(w.sent, Message(id, "response", w.o.hasReply))],
                  id, "responded")
  ELSE finishTask(w, id, "silent")

World(id) == [tm |-> tm, o |-> orch[id], sent |-> sent]

Commit(w, id) ==
  /\ tm' = w.tm
  /\ orch' = [orch EXCEPT ![id] = w.o]
  /\ sent' = w.sent

\* Orchestrator.handleUserIntent for an event that is not handled: preempt the
\* primary task when the priority is high, then createTask.
handleUserIntent(t, priority) ==
  createTask(IF shouldCancelPrimaryTask(t, priority) THEN cancelPrimaryTask(t) ELSE t)

\* EventManager.emit of a 'user_intent' event: the Reflex subscriber (first),
\* then the Orchestrator's subscriber, which runs handleUserIntent and
\* executeTaskWithCancellation up to the await of createPlan.
UserIntent(content, p, hasReply) ==
  /\ bus.intents < limit.intents
  /\ bus.intents + BrainUsed < limit.total
  /\ LET priority == EmitPriority(p)
         handled == IsGreeting(content)
         id == Len(tm.tasks) + 1
         o == [pc |-> "planning", retryCount |-> 0, call |-> NoCall(NoActionPlan),
               hasReply |-> hasReply, execCalls |-> 0, attempts |-> <<>>,
               adjusts |-> 0, responding |-> FALSE, planned |-> "none",
               planStatus |-> "none",
               outcome |-> "none"]
     IN /\ bus' = [bus EXCEPT !.intents = bus.intents + 1,
                              !.last = [type |-> "user_intent", priority |-> priority,
                                        handled |-> handled]]
        /\ IF handled
           THEN /\ sent' = Send(sent, Message(NoTask, "reflex", hasReply))
                /\ UNCHANGED <<tm, orch>>
           ELSE /\ tm' = updateTaskStatus(handleUserIntent(tm, priority), id, "planning")
                /\ orch' = Append(orch, o)
                /\ UNCHANGED sent
  /\ UNCHANGED <<initialized, limit, brain, calls, exec, em, bucket, pipe, lock, qorch>>

\* bot.planning.createPlan resolves with a plan.
PlanReturn(id, plan) ==
  /\ orch[id].pc = "planning"
  /\ Commit(afterPlan(World(id), id, plan, initialized), id)
  /\ UNCHANGED <<initialized, bus, limit, brain, calls, exec, em, bucket, pipe, lock, qorch>>

\* bot.planning.createPlan rejects: catch, finally.
PlanThrow(id) ==
  /\ orch[id].pc = "planning"
  /\ Commit(finishTask(World(id), id, "failed"), id)
  /\ UNCHANGED <<initialized, bus, limit, brain, calls, exec, em, bucket, pipe, lock, qorch>>

\* performAction of the step in flight settles inside executePlan; when
\* executePlan exits, the retry loop continues.
PlanStepReturn(id, outcome) ==
  /\ orch[id].pc = "executing"
  /\ LET w == World(id)
         c == stepReturn(w.o.call, outcome, tm.tasks[id].isCancelled)
         w1 == [w EXCEPT !.o.call = c]
     IN Commit(IF c.pos = "step" THEN w1 ELSE afterAttempt(w1, id), id)
  /\ UNCHANGED <<initialized, bus, limit, brain, calls, exec, em, bucket, pipe, lock, qorch>>

\* bot.planning.adjustPlan resolves: setTaskPlan, next iteration of the loop.
AdjustReturn(id, n) ==
  /\ orch[id].pc = "adjusting"
  /\ LET w == World(id)
         w1 == [w EXCEPT !.tm = setTaskPlan(w.tm, id),
                         !.o.adjusts = w.o.adjusts + 1]
     IN Commit(startAttempt(w1, id, ActionPlan(n), initialized), id)
  /\ UNCHANGED <<initialized, bus, limit, brain, calls, exec, em, bucket, pipe, lock, qorch>>

\* bot.planning.adjustPlan rejects inside the catch block: outer catch, finally.
AdjustThrow(id) ==
  /\ orch[id].pc = "adjusting"
  /\ Commit(finishTask(World(id), id, "failed"), id)
  /\ UNCHANGED <<initialized, bus, limit, brain, calls, exec, em, bucket, pipe, lock, qorch>>

\* The oracle call of the response phase settles.
ResponseReturn(id, res) ==
  /\ orch[id].pc = "responding"
  /\ Commit(afterResponse(World(id), id, res), id)
  /\ UNCHANGED <<initialized, bus, limit, brain, calls, exec, em, bucket, pipe, lock, qorch>>

OrchNext ==
  \/ \E content \in Contents, p \in PriorityInputs, hasReply \in limit.sinks :
       UserIntent(content, p, hasReply)
  \/ \E id \in DOMAIN orch, plan \in PlanInputs : PlanReturn(id, plan)
  \/ \E id \in DOMAIN orch : PlanThrow(id)
  \/ \E id \in DOMAIN orch, outcome \in StepOutcomes : PlanStepReturn(id, outcome)
  \/ \E id \in DOMAIN orch, n \in 0..limit.steps : AdjustReturn(id, n)
  \/ \E id \in DOMAIN orch : AdjustThrow(id)
  \/ \E id \in DOMAIN orch, res \in {"text", "empty", "throw"} : ResponseReturn(id, res)

\* ----------------------------------------------------------- EventManager
\* The subscriptions of the underlying emitter, in registration order, each
\* with its registration number n, and what the last emit delivered.
Kinds == {"user_intent", "stimulus"}

Subscribers == {"reflex", "decision"}

NoEmit == [type |-> "none", given |-> NoPriority, log |-> <<>>, threw |-> FALSE]

NewEmitter == [subs |-> <<>>, next |-> 1, emits |-> 0, last |-> NoEmit]

EMInit == em = NewEmitter

\* EventManager.on / once: emitter.on(type, handler) appends a listener.
on(e, kind, who) ==
  [e EXCEPT !.subs = Append(e.subs, [n |-> e.next, kind |-> kind, who |-> who,
                                     once |-> FALSE]),
            !.next = e.next + 1]

once(e, kind, who) ==
  [e EXCEPT !.subs = Append(e.subs, [n |-> e.next, kind |-> kind, who |-> who,
                                     once |-> TRUE]),
            !.next = e.next + 1]

\* EventManager.off: emitter.off(type, handler) removes every listener of that
\* type registered with the handler.
IsSub(l, kind, who) == l.kind = kind /\ l.who = who

KeepOthers(subs, kind, who) == SelectSeq(subs, LAMBDA l : ~IsSub(l, kind, who))

off(e, kind, who) == [e EXCEPT !.subs = KeepOthers(e.subs, kind, who)]

\* The listeners of one event name, in registration order.
ListenersOf(subs, name) == SelectSeq(subs, LAMBDA l : l.kind = name)

Without(subs, n) == SelectSeq(subs, LAMBDA l : l.n # n)

\* emitter.emit(name, event): the listeners are called one after the other; a
\* once-listener is removed before it is called; a listener that throws ends
\* the emit, the exception going to the caller.  thrower is the registration
\* number of the listener that throws when called (0: none does).
RECURSIVE callListeners(_, _, _, _)
callListeners(st, ls, priority, thrower) ==
  IF Len(ls) = 0 THEN st
  ELSE LET l == Head(ls)
           st1 == [st EXCEPT
                     !.subs = IF l.once THEN Without(st.subs, l.n) ELSE st.subs,
                     !.log = Append(st.log, [n |-> l.n, who |-> l.who, kind |-> l.kind,
                                             priority |-> priority])]
       IN IF l.n = thrower THEN [st1 EXCEPT !.threw = TRUE]
          ELSE callListeners(st1, Tail(ls), priority, thrower)

\* emit that leaves a missing priority undefined.
emit_noDefault(e, type, p, thrower) ==
  LET st0 == [subs |-> e.subs, log |-> <<>>, threw |-> FALSE]
      st1 == callListeners(st0, ListenersOf(e.subs, type), p, thrower)
      st2 == IF st1.threw THEN st1
             ELSE callListeners(st1, ListenersOf(st1.subs, "*"), p, thrower)
  IN [e EXCEPT !.subs = st2.subs, !.emits = e.emits + 1,
               !.last = [type |-> type, given |-> p, log |-> st2.log,
                         threw |-> st2.threw]]

\* EventManager.emit: default priority, emitter.emit(event.type, event), then
\* emitter.emit('*', event).
emit(e, type, p, thrower) ==
  LET priority == EmitPriority(p)
      st0 == [subs |-> e.subs, log |-> <<>>, threw |-> FALSE]
      st1 == callListeners(st0, ListenersOf(e.subs, type), priority, thrower)
      st2 == IF st1.threw THEN st1
             ELSE callListeners(st1, ListenersOf(st1.subs, "*"), priority, thrower)
  IN [e EXCEPT !.subs = st2.subs, !.emits = e.emits + 1,
               !.last = [type |-> type, given |-> p, log |-> st2.log,
                         threw |-> st2.threw]]

On(kind, who) ==
  /\ em.next <= limit.subs
  /\ em' = on(em, kind, who)
  /\ UNCHANGED <<initialized, bus, limit, brain, tm, orch, calls, sent, exec, bucket, pipe, lock, qorch>>

Once(kind, who) ==
  /\ em.next <= limit.subs
  /\ em' = once(em, kind, who)
  /\ UNCHANGED <<initialized, bus, limit, brain, tm, orch, calls, sent, exec, bucket, pipe, lock, qorch>>

Off(kind, who) ==
  /\ \E i \in DOMAIN em.subs : IsSub(em.subs[i], kind, who)
  /\ em' = off(em, kind, who)
  /\ UNCHANGED <<initialized, bus, limit, brain, tm, orch, calls, sent, exec, bucket, pipe, lock, qorch>>

Emit(type, p, thrower) ==
  /\ em.emits < limit.emits
  /\ em' = emit(em, type, p, thrower)
  /\ UNCHANGED <<initialized, bus, limit, brain, tm, orch, calls, sent, exec, bucket, pipe, lock, qorch>>

EMNext ==
  \/ \E kind \in Kinds \cup {"*"}, who \in Subscribers : On(kind, who)
  \/ \E kind \in Kinds \cup {"*"}, who \in Subscribers : Once(kind, who)
  \/ \E kind \in Kinds \cup {"*"}, who \in Subscribers : Off(kind, who)
  \/ \E type \in Kinds, p \in PriorityInputs \cup {0}, thrower \in 0..(em.next - 1) :
       Emit(type, p, thrower)

\* ------------------------------------------------------------ LeakyBucket
\* Values are counted in thousandths, so that leakPerMs * deltaMs is exact:
\* leakPerSecond / 1000 a millisecond is leakPerSecond thousandths a millisecond.
PerUnit == 1000

\* The configuration AttentionDetector.getBucket creates every bucket with.
capacity == 10
leakPerSecond == 2
trigger == 3

DetectorConfig == [capacity |-> capacity * PerUnit, leakPerMs |-> leakPerSecond,
                   trigger |-> trigger * PerUnit]

\* A bucket whose trigger lies above its capacity.
SmallConfig == [capacity |-> 2 * PerUnit, leakPerMs |-> 1, trigger |-> trigger * PerUnit]

BucketConfigs == {DetectorConfig, SmallConfig}

\* Amounts added (AttentionDetector.ingest adds the weight 1) and frame times.
Amounts == {0, 1, PerUnit, 2 * PerUnit, 3 * PerUnit, 9 * PerUnit}

Deltas == {-1, 0, 500, 1000}

\* add takes any number: the amounts above and some below zero.
AnyAmounts == Amounts \cup {-1, -PerUnit}

NoAdd == [amount |-> 0, before |-> 0, after |-> 0, fired |-> FALSE]

\* new LeakyBucket(config): value = 0.  adds counts the calls of add, fires
\* those that fired, dipped
\* tells whether a tick since the last of them brought the value below trigger.
newBucket(cfg) ==
  [cfg |-> cfg, value |-> 0, ops |-> 0, adds |-> 0, fires |-> 0, dipped |-> FALSE,
   last |-> NoAdd]

BucketInit == bucket = newBucket(DetectorConfig)

\* tick without the floor at 0.
tick_noFloor(b, deltaMs) ==
  IF deltaMs <= 0 THEN b
  ELSE LET value == b.value - b.cfg.leakPerMs * deltaMs
       IN [b EXCEPT !.value = value,
                    !.dipped = b.dipped \/ (b.value >= b.cfg.trigger /\ value < b.cfg.trigger)]

\* tick that leaks for any deltaMs, also below zero.
tick_noGuard(b, deltaMs) ==
  LET v == b.value - b.cfg.leakPerMs * deltaMs
      value == IF v > 0 THEN v ELSE 0
  IN [b EXCEPT !.value = value,
               !.dipped = b.dipped \/ (b.value >= b.cfg.trigger /\ value < b.cfg.trigger)]

\* LeakyBucket.tick.
tick(b, deltaMs) ==
  IF deltaMs <= 0 THEN b
  ELSE LET v == b.value - b.cfg.leakPerMs * deltaMs
           value == IF v > 0 THEN v ELSE 0
       IN [b EXCEPT !.value = value,
                    !.dipped = b.dipped \/ (b.value >= b.cfg.trigger /\ value < b.cfg.trigger)]

\* add that fires whenever the new value is at or above trigger.
add_level(b, amount) ==
  LET sum == b.value + amount
      next == IF sum < b.cfg.capacity THEN sum ELSE b.cfg.capacity
      fired == next >= b.cfg.trigger
  IN [b EXCEPT !.value = next, !.adds = b.adds + 1,
               !.fires = IF fired THEN b.fires + 1 ELSE b.fires,
               !.dipped = IF fired THEN FALSE ELSE b.dipped,
               !.last = [amount |-> amount, before |-> b.value, after |-> next,
                         fired |-> fired]]

\* LeakyBucket.add.
add(b, amount) ==
  LET sum == b.value + amount
      next == IF sum < b.cfg.capacity THEN sum ELSE b.cfg.capacity
      fired == b.value < b.cfg.trigger /\ next >= b.cfg.trigger
  IN [b EXCEPT !.value = next, !.adds = b.adds + 1,
               !.fires = IF fired THEN b.fires + 1 ELSE b.fires,
               !.dipped = IF fired THEN FALSE ELSE b.dipped,
               !.last = [amount |-> amount, before |-> b.value, after |-> next,
                         fired |-> fired]]

Tick(deltaMs) ==
  /\ bucket.ops < limit.ops
  /\ bucket' = [tick(bucket, deltaMs) EXCEPT !.ops = bucket.ops + 1]
  /\ UNCHANGED <<initialized, bus, limit, brain, tm, orch, calls, sent, exec, em, pipe, lock, qorch>>

Add(amount) ==
  /\ bucket.ops < limit.ops
  /\ bucket' = [add(bucket, amount) EXCEPT !.ops = bucket.ops + 1]
  /\ UNCHANGED <<initialized, bus, limit, brain, tm, orch, calls, sent, exec, em, pipe, lock, qorch>>

BucketNext ==
  \/ \E deltaMs \in Deltas : Tick(deltaMs)
  \/ \E amount \in Amounts : Add(amount)

BucketAnyNext ==
  \/ \E deltaMs \in Deltas : Tick(deltaMs)
  \/ \E amount \in AnyAmounts : Add(amount)

\* ------------------------------------------------------ PerceptionPipeline
\* Raw perception events: modality, kind and the identity field of the
\* modality (entityId or soundId, "none" when the field is missing).
Shapes ==
  { [modality |-> "sighted", kind |-> "entity_moved", ident |-> "e1"],
    [modality |-> "heard", kind |-> "sound", ident |-> "s1"] }

\* AttentionDetector.keyOf.
keyOf(event) ==
  CASE event.modality = "sighted" ->
         <<"sighted", event.kind, IF event.ident = "none" THEN "unknown" ELSE event.ident>>
    [] event.modality = "heard" -> <<"heard", event.kind, event.ident>>
    [] event.modality = "felt" -> <<"felt", event.kind>>
    [] OTHER -> <<"unknown">>

\* The weight AttentionDetector.ingest adds for every raw event.
weight == 1

\* Frame times passed to PerceptionPipeline.tick.
FrameDeltas == {0, 500}

\* The bus the pipeline publishes to: without subscribers, or with a client's
\* subscriber for 'perception' or for '*'.
Observed ==
  {NewEmitter} \cup {on(NewEmitter, kind, "observer") : kind \in {"perception", "*"}}

\* The bus as the agent's start-up leaves it: ReflexManager.init subscribes to
\* 'user_intent', then Brain.init to 'stimulus'.
Wired == on(on(NewEmitter, "user_intent", "reflex"), "stimulus", "decision")

NoTick == [batch |-> <<>>, threw |-> FALSE, caught |-> 0]

\* new PerceptionPipeline: an empty buffer, a detector without buckets,
\* initialized = false.  offered counts the collect calls, collected lists the
\* events pushed to the buffer, ingested those passed to detector.ingest,
\* noticed the events the detector published, each with the listeners called.
newPipeline ==
  [initialized |-> FALSE, queue |-> <<>>, buckets |-> <<>>,
   offered |-> 0, collected |-> <<>>, ingested |-> <<>>, noticed |-> <<>>,
   ticks |-> 0, destroys |-> 0, last |-> NoTick]

PipeInit == pipe = newPipeline

\* The raw event of a collect call: it carries the number of the call, the
\* number of tick calls that had returned by then and whether the pipeline
\* was initialized.
rawEvent(p, shape) ==
  [id |-> p.offered + 1, frame |-> p.ticks, live |-> p.initialized,
   modality |-> shape.modality, kind |-> shape.kind, ident |-> shape.ident]

\* collect without the test of initialized.
collect_always(p, shape) ==
  [p EXCEPT !.offered = p.offered + 1, !.queue = Append(p.queue, rawEvent(p, shape)),
            !.collected = Append(p.collected, rawEvent(p, shape))]

\* RawEventBuffer.push through PerceptionPipeline.collect.
collect(p, shape) ==
  IF ~p.initialized THEN [p EXCEPT !.offered = p.offered + 1]
  ELSE [p EXCEPT !.offered = p.offered + 1, !.queue = Append(p.queue, rawEvent(p, shape)),
                 !.collected = Append(p.collected, rawEvent(p, shape))]

\* drain that leaves the queue in the buffer.
drain_keep(queue) == [drained |-> queue, queue |-> queue]

\* RawEventBuffer.drain: the queue is handed out and replaced by a new one.
drain(queue) ==
  IF Len(queue) = 0 THEN [drained |-> <<>>, queue |-> queue]
  ELSE [drained |-> queue, queue |-> <<>>]

\* AttentionDetector.getBucket: the buckets with one for key.
getBucket(buckets, key) ==
  IF key \in DOMAIN buckets THEN buckets
  ELSE [k \in DOMAIN buckets \cup {key} |->
          IF k = key THEN newBucket(DetectorConfig) ELSE buckets[k]]

\* AttentionDetector.tick.
detectorTick(buckets, deltaMs) == [k \in DOMAIN buckets |-> tick(buckets[k], deltaMs)]

\* The 'stimulus' subscriber of the Brain called for every delivery to it.
RECURSIVE deliver(_, _)
deliver(b, log) ==
  IF Len(log) = 0 THEN b
  ELSE LET l == Head(log)
           ev == [type |-> "perception", priority |-> l.priority, handled |-> FALSE,
                  status |-> "none"]
       IN deliver(IF l.who = "decision" THEN onStimulus(b, ev) ELSE b, Tail(log))

Called(log, n) == \E i \in DOMAIN log : log[i].n = n

\* ingest that publishes for every raw event.
ingest_always(st, event, thrower, re, shape) ==
  LET key == keyOf(event)
      bs == getBucket(st.p.buckets, key)
      b1 == add(bs[key], weight * PerUnit)
      p1 == [st.p EXCEPT !.buckets = [bs EXCEPT ![key] = b1],
                         !.ingested = Append(st.p.ingested, event)]
      e1 == emit(st.e, "perception", NoPriority, thrower)
      p2 == IF Called(e1.last.log, re) THEN collect(p1, shape) ELSE p1
      b2 == deliver(st.b, e1.last.log)
      n == [raw |-> event, intensity |-> b1.value, log |-> e1.last.log,
            threw |-> e1.last.threw, enqueued |-> Len(b2.enq) > Len(st.b.enq)]
  IN [p |-> [p2 EXCEPT !.noticed = Append(p2.noticed, n)], e |-> e1, b |-> b2,
      threw |-> e1.last.threw]

\* AttentionDetector.ingest.  thrower is the listener that throws when called,
\* re the listener that calls collect with a raw event of the given shape
\* (0: no listener does).
ingest(st, event, thrower, re, shape) ==
  LET key == keyOf(event)
      bs == getBucket(st.p.buckets, key)
      b1 == add(bs[key], weight * PerUnit)
      p1 == [st.p EXCEPT !.buckets = [bs EXCEPT ![key] = b1],
                         !.ingested = Append(st.p.ingested, event)]
  IN IF ~b1.last.fired THEN [st EXCEPT !.p = p1, !.threw = FALSE]
     ELSE LET e1 == emit(st.e, "perception", NoPriority, thrower)
              p2 == IF Called(e1.last.log, re) THEN collect(p1, shape) ELSE p1
              b2 == deliver(st.b, e1.last.log)
              n == [raw |-> event, intensity |-> b1.value, log |-> e1.last.log,
                    threw |-> e1.last.threw, enqueued |-> Len(b2.enq) > Len(st.b.enq)]
          IN [p |-> [p2 EXCEPT !.noticed = Append(p2.noticed, n)], e |-> e1, b |-> b2,
              threw |-> e1.last.threw]

\* F of the value of x, x being evaluated once.
Then(x, F(_)) == CHOOSE r \in {F(v) : v \in {x}} : TRUE

\* The loop of tick without the try around ingest.
RECURSIVE ingestAll_noCatch(_, _, _, _, _)
ingestAll_noCatch(st, events, thrower, re, shape) ==
  IF Len(events) = 0 THEN st
  ELSE Then(ingest(st, Head(events), thrower, re, shape),
            LAMBDA st1 : IF st1.threw THEN st1
                         ELSE ingestAll_noCatch(st1, Tail(events), thrower, re, shape))

\* The catch block of tick: the error is logged.
caught(st) ==
  IF st.threw THEN [st EXCEPT !.p.last.caught = st.p.last.caught + 1, !.threw = FALSE]
  ELSE st

\* The loop of PerceptionPipeline.tick: an error of ingest is caught and logged.
RECURSIVE ingestAll(_, _, _, _, _)
ingestAll(st, events, thrower, re, shape) ==
  IF Len(events) = 0 THEN st
  ELSE Then(ingest(st, Head(events), thrower, re, shape),
            LAMBDA st1 : ingestAll(caught(st1), Tail(events), thrower, re, shape))

\* PerceptionPipeline.tick.
pipelineTick(st, deltaMs, thrower, re, shape) ==
  IF ~st.p.initialized THEN st
  ELSE LET dr == drain(st.p.queue)
           st1 == [st EXCEPT !.p.buckets = detectorTick(st.p.buckets, deltaMs),
                             !.p.queue = dr.queue,
                             !.p.last = [batch |-> dr.drained, threw |-> FALSE,
                                         caught |-> 0],
                             !.threw = FALSE]
       IN Then(st1, LAMBDA st2 :
            Then(ingestAll(st2, dr.drained, thrower, re, shape),
                 LAMBDA st3 : [st3 EXCEPT !.p.last.threw = st3.threw]))

\* PerceptionPipeline.init.
PipelineInit ==
  /\ pipe' = [pipe EXCEPT !.initialized = TRUE]
  /\ UNCHANGED <<initialized, bus, limit, brain, tm, orch, calls, sent, exec, em, bucket, lock, qorch>>

\* PerceptionPipeline.destroy.
PipelineDestroy ==
  /\ pipe.destroys < limit.destroys
  /\ pipe' = [pipe EXCEPT !.queue = <<>>, !.initialized = FALSE,
                          !.destroys = pipe.destroys + 1]
  /\ UNCHANGED <<initialized, bus, limit, brain, tm, orch, calls, sent, exec, em, bucket, lock, qorch>>

\* PerceptionPipeline.collect called by a producer.
Collect(shape) ==
  /\ pipe.offered < limit.collects
  /\ pipe' = collect(pipe, shape)
  /\ UNCHANGED <<initialized, bus, limit, brain, tm, orch, calls, sent, exec, em, bucket, lock, qorch>>

\* PerceptionPipeline.tick called once a frame.
PipelineTick(deltaMs, thrower, re, shape) ==
  /\ pipe.ticks < limit.ticks
  /\ re # 0 => pipe.offered < limit.collects
  /\ LET st == pipelineTick([p |-> pipe, e |-> em, b |-> brain, threw |-> FALSE],
                            deltaMs, thrower, re, shape)
     IN /\ pipe' = [st.p EXCEPT !.ticks = pipe.ticks + 1]
        /\ em' = st.e
        /\ brain' = st.b
  /\ UNCHANGED <<initialized, bus, limit, tm, orch, calls, sent, exec, bucket, lock, qorch>>

PipeNext ==
  \/ PipelineInit
  \/ PipelineDestroy
  \/ \E shape \in Shapes : Collect(shape)
  \/ \E deltaMs \in FrameDeltas, thrower \in 0..(em.next - 1), re \in 0..(em.next - 1),
        shape \in Shapes : PipelineTick(deltaMs, thrower, re, shape)

\* ------------------------------------- Orchestrator with the isProcessing lock
\* jobs holds one record per handleUserIntent call: where it waits ("planning",
\* "executing", "status", "responding"), or how it returned ("inhibited",
\* "skipped", "done").
LockInit == lock = [isProcessing |-> FALSE, jobs |-> <<>>]

Awaiting == {"planning", "executing", "status", "responding"}

LockJob(pc, hasReply) == [pc |-> pc, hasReply |-> hasReply, outcome |-> "none"]

\* The await that follows the one that resolved: createPlan, executePlan,
\* generateStatusPrompt, neuri.handleStateless.
NextAwait(pc) ==
  CASE pc = "planning" -> "executing"
    [] pc = "executing" -> "status"
    [] pc = "status" -> "responding"

\* handleUserIntent up to the await of createPlan: the inhibition check, the
\* lock check, isProcessing = true.
lockIntent(l, handled, hasReply) ==
  IF handled THEN [l EXCEPT !.jobs = Append(l.jobs, LockJob("inhibited", hasReply))]
  ELSE IF l.isProcessing
       THEN [l EXCEPT !.jobs = Append(l.jobs, LockJob("skipped", hasReply))]
       ELSE [l EXCEPT !.isProcessing = TRUE,
                      !.jobs = Append(l.jobs, LockJob("planning", hasReply))]

\* The catch and finally blocks: the error message goes to the reply sink or
\* the chat (nothing is sent when that throws), and the lock is released.
lockFail(w, j, sinkThrows) ==
  [l |-> [w.l EXCEPT !.isProcessing = FALSE, !.jobs[j].pc = "done",
                     !.jobs[j].outcome = "error"],
   s |-> IF sinkThrows THEN w.s
         ELSE Send(w.s, Message(j, "error", w.l.jobs[j].hasReply))]

\* lockSettle whose lock is only released at the end of the try block.
lockSettle_noFinally(w, j, ok, response, sinkThrows) ==
  LET job == w.l.jobs[j]
  IN IF ~ok \/ (job.pc = "responding" /\ response /\ sinkThrows)
     THEN [lockFail(w, j, sinkThrows) EXCEPT !.l.isProcessing = TRUE]
     ELSE IF job.pc # "responding"
     THEN [w EXCEPT !.l.jobs[j].pc = NextAwait(job.pc)]
     ELSE [l |-> [w.l EXCEPT !.isProcessing = FALSE, !.jobs[j].pc = "done",
                             !.jobs[j].outcome = IF response THEN "replied" ELSE "silent"],
           s |-> IF response THEN Send(w.s, Message(j, "response", job.hasReply)) ELSE w.s]

\* handleUserIntent from the await that settled to the next one, or to its end:
\* ok tells whether the awaited call resolved, response whether the response
\* is not empty, sinkThrows whether source.reply / bot.chat throws.
lockSettle(w, j, ok, response, sinkThrows) ==
  LET job == w.l.jobs[j]
  IN IF ~ok \/ (job.pc = "responding" /\ response /\ sinkThrows)
     THEN lockFail(w, j, sinkThrows)
     ELSE IF job.pc # "responding"
     THEN [w EXCEPT !.l.jobs[j].pc = NextAwait(job.pc)]
     ELSE [l |-> [w.l EXCEPT !.isProcessing = FALSE, !.jobs[j].pc = "done",
                             !.jobs[j].outcome = IF response THEN "replied" ELSE "silent"],
           s |-> IF response THEN Send(w.s, Message(j, "response", job.hasReply)) ELSE w.s]

\* EventManager.emit of a 'user_intent' event: the Reflex subscriber (first),
\* then the subscriber of Orchestrator.init.
LockIntent(content, hasReply) ==
  /\ Len(lock.jobs) < limit.intents
  /\ LET handled == IsGreeting(content)
     IN /\ lock' = lockIntent(lock, handled, hasReply)
        /\ sent' = IF handled THEN Send(sent, Message(NoTask, "reflex", hasReply)) ELSE sent
  /\ UNCHANGED <<initialized, bus, limit, brain, tm, orch, calls, exec, em, bucket, pipe, qorch>>

\* The call handleUserIntent awaits settles.
LockSettle(j, ok, response, sinkThrows) ==
  /\ lock.jobs[j].pc \in Awaiting
  /\ LET w == lockSettle([l |-> lock, s |-> sent], j, ok, response, sinkThrows)
     IN lock' = w.l /\ sent' = w.s
  /\ UNCHANGED <<initialized, bus, limit, brain, tm, orch, calls, exec, em, bucket, pipe, qorch>>

LockNext ==
  \/ \E content \in Contents, hasReply \in BOOLEAN : LockIntent(content, hasReply)
  \/ \E j \in DOMAIN lock.jobs, ok \in BOOLEAN, response \in BOOLEAN, sinkThrows \in BOOLEAN :
       LockSettle(j, ok, response, sinkThrows)


\* ---------------------------------------------------------- ReflexManager
\* Greetings in several casings, and texts that are none.
Greetings ==
  {<<"h", "i">>, <<"H", "i">>, <<"h", "I">>, <<"H", "I">>,
   <<"h", "e", "l", "l", "o">>, <<"H", "e", "l", "l", "o">>,
   <<"H", "E", "L", "L", "O">>, <<"h", "e", "L", "l", "O">>}

Others ==
  {<<>>, <<"h", " ", "i">>, <<"h", "i", "!">>, <<"h", "e", "y">>, <<"i", "h">>,
   <<"h", "e", "l", "l", "o", "o">>, <<"H", "I", "H", "I">>}

Pads == UNION {[1..k -> Whitespace] : k \in 0..MaxPad}

\* The contents of the user intents: a word with whitespace around it.
Texts == {l \o w \o r : l \in Pads, r \in Pads, w \in Greetings \cup Others}

\* ReflexManager.handleUserIntent on event: on a greeting the reply goes to
\* source.reply or bot.chat and handled is set after it; a sink that throws
\* ends the handler before that.
reflexUserIntent(event, s, sinkThrows) ==
  IF ~IsGreeting(event.content) THEN [event |-> event, sent |-> s]
  ELSE IF sinkThrows THEN [event |-> [event EXCEPT !.threw = TRUE], sent |-> s]
  ELSE [event |-> [event EXCEPT !.handled = TRUE],
        sent |-> Send(s, Message(NoTask, "reflex", event.hasReply))]

\* EventManager.emit of a 'user_intent' event with the Reflex subscriber only.
ReflexIntent(content, hasReply, sinkThrows) ==
  /\ bus.intents < limit.intents
  /\ LET event == [type |-> "user_intent", priority |-> DefaultPriority,
                   handled |-> FALSE, content |-> content, hasReply |-> hasReply,
                   threw |-> FALSE]
         r == reflexUserIntent(event, sent, sinkThrows)
     IN /\ bus' = [bus EXCEPT !.intents = bus.intents + 1, !.last = r.event]
        /\ sent' = r.sent
  /\ UNCHANGED <<initialized, limit, brain, tm, orch, calls, exec, em, bucket, pipe, lock, qorch>>

ReflexNext ==
  \E content \in Texts, hasReply \in BOOLEAN, sinkThrows \in BOOLEAN :
    ReflexIntent(content, hasReply, sinkThrows)

\* ------------------------------------- queueing Orchestrator, one task slot
\* The Orchestrator that queues user intents behind the current task, with
\* the TaskManager that has one slot (currentTask).  events lists the user
\* intents that reached handleUserIntent unhandled: priority, reply sink, the
\* task created for the event (NoTask so far) and whether it was queued.
\* tasks lists the tasks by id, each with the position of the
\* handleUserIntent call that created it: the awaited call (pc), whether the
\* call was made by processNextQueuedEvent (nested), and the task that was
\* cancelled to make room (preempted).
QueueInit ==
  qorch = [currentTask |-> NoTask, taskHistory |-> <<>>, tasks |-> <<>>,
           eventQueue |-> <<>>, isProcessingQueue |-> FALSE, events |-> <<>>]

QueueAwaits == {"planning", "executing", "status", "responding"}

\* TaskManager.addToHistory (single slot): push, shift beyond maxHistorySize.
slotAddToHistory(q, id) ==
  LET h == Append(q.taskHistory, id)
  IN [q EXCEPT !.taskHistory = IF Len(h) > maxHistorySize THEN Tail(h) ELSE h]

\* TaskManager.createTask (single slot): the new task becomes currentTask.
slotCreateTask(q, e, nested, preempted) ==
  LET id == Len(q.tasks) + 1
      task == [event |-> e, status |-> "idle", isCancelled |-> FALSE, hasPlan |-> FALSE,
               pc |-> "created", nested |-> nested, outcome |-> "none",
               preempted |-> preempted]
  IN [q EXCEPT !.tasks = Append(q.tasks, task), !.currentTask = id,
               !.events[e].task = id]

\* TaskManager.updateTaskStatus (single slot): the status of currentTask.
slotUpdateTaskStatus(q, status) ==
  IF q.currentTask = NoTask THEN q
  ELSE [q EXCEPT !.tasks[q.currentTask].status = status]

\* TaskManager.setTaskPlan (single slot).
slotSetTaskPlan(q) ==
  IF q.currentTask = NoTask THEN q
  ELSE [q EXCEPT !.tasks[q.currentTask].hasPlan = TRUE]

\* TaskManager.cancelCurrentTask: cancelling, token.cancel(), archive, slot cleared.
cancelCurrentTask(q) ==
  IF q.currentTask = NoTask THEN q
  ELSE LET id == q.currentTask
           q1 == [q EXCEPT !.tasks[id].status = "cancelling",
                           !.tasks[id].isCancelled = TRUE]
       IN [slotAddToHistory(q1, id) EXCEPT !.currentTask = NoTask]

\* TaskManager.completeCurrentTask: whatever task is in the slot is archived
\* and the slot cleared.
completeCurrentTask(q) ==
  IF q.currentTask = NoTask THEN q
  ELSE [slotAddToHistory(q, q.currentTask) EXCEPT !.currentTask = NoTask]

\* Orchestrator.shouldCancelCurrentTask.
shouldCancelCurrentTask(priority) ==
  (IF priority = NoPriority THEN 5 ELSE priority) >= HIGH_PRIORITY_THRESHOLD

\* Orchestrator.handleUserIntent for event e up to its first await (createPlan
\* in executeTaskWithCancellation), on w = [q, s]: queue the event behind the
\* current task and say so, or cancel the current task for a high priority,
\* then createTask.
queueUserIntent(w, e, nested) ==
  LET ev == w.q.events[e]
  IN IF w.q.currentTask # NoTask /\ ~shouldCancelCurrentTask(ev.priority)
     THEN [q |-> [w.q EXCEPT !.eventQueue = Append(w.q.eventQueue, e),
                             !.events[e].queued = TRUE],
           s |-> Send(w.s, Message(e, "busy", ev.hasReply))]
     ELSE LET q1 == IF w.q.currentTask # NoTask THEN cancelCurrentTask(w.q) ELSE w.q
              q2 == slotCreateTask(q1, e, nested, w.q.currentTask)
              q3 == slotUpdateTaskStatus(q2, "planning")
          IN [q |-> [q3 EXCEPT !.tasks[Len(q2.tasks)].pc = "planning"], s |-> w.s]

\* Orchestrator.processNextQueuedEvent: nothing while isProcessingQueue is set
\* or the queue is empty; else the flag is set and handleUserIntent awaited
\* for the head of the queue.  The flag is cleared when that call has ended,
\* at once if it only queued the event again.
processNextQueuedEvent(w) ==
  IF w.q.isProcessingQueue \/ Len(w.q.eventQueue) = 0 THEN w
  ELSE LET e == Head(w.q.eventQueue)
           w1 == [w EXCEPT !.q.isProcessingQueue = TRUE,
                           !.q.eventQueue = Tail(w.q.eventQueue)]
           w2 == queueUserIntent(w1, e, TRUE)
       IN IF w2.q.events[e].task = NoTask
          THEN [w2 EXCEPT !.q.isProcessingQueue = FALSE]
          ELSE w2

\* The end of a handleUserIntent call that created task id: the finally block
\* (completeCurrentTask, processNextQueuedEvent), and for a call made by
\* processNextQueuedEvent the rest of that function (isProcessingQueue = false).
queueFinish(w, id, outcome) ==
  LET w1 == [w EXCEPT !.q = completeCurrentTask(w.q)]
      w2 == processNextQueuedEvent(w1)
      w3 == [w2 EXCEPT !.q.tasks[id].pc = "done", !.q.tasks[id].outcome = outcome]
  IN IF w.q.tasks[id].nested THEN [w3 EXCEPT !.q.isProcessingQueue = FALSE] ELSE w3

\* The catch block of handleUserIntent: the error message, then finally.
queueFail(w, id) ==
  LET ev == w.q.events[w.q.tasks[id].event]
  IN queueFinish([w EXCEPT !.s = Send(w.s, Message(w.q.tasks[id].event, "error", ev.hasReply))],
                 id, "failed")

\* executeTaskWithCancellation of task id resumed after the call it awaited:
\* res tells how the call ended ("ok", "empty" for an empty response, "throw").
queueSettle(w, id, res) ==
  LET t == w.q.tasks[id]
      ev == w.q.events[t.event]
  IN IF res = "throw" THEN queueFail(w, id)
     ELSE IF t.pc = "planning"
     THEN LET w1 == [w EXCEPT !.q = slotSetTaskPlan(w.q)]
          IN IF t.isCancelled THEN queueFinish(w1, id, "cancelled")
             ELSE [w1 EXCEPT !.q = [slotUpdateTaskStatus(w1.q, "executing")
                                      EXCEPT !.tasks[id].pc = "executing"]]
     ELSE IF t.pc = "executing"
     THEN IF t.isCancelled THEN queueFinish(w, id, "cancelled")
          ELSE [w EXCEPT !.q = [slotUpdateTaskStatus(w.q, "responding")
                                  EXCEPT !.tasks[id].pc = "status"]]
     ELSE IF t.pc = "status"
     THEN [w EXCEPT !.q.tasks[id].pc = "responding"]
     ELSE IF t.isCancelled THEN queueFinish(w, id, "cancelled")
     ELSE IF res = "ok"
     THEN queueFinish([w EXCEPT !.s = Send(w.s, Message(t.event, "response", ev.hasReply))],
                      id, "responded")
     ELSE queueFinish(w, id, "silent")

\* EventManager.emit of a 'user_intent' event: the Reflex subscriber (first),
\* then the subscriber of Orchestrator.init.
QueueIntent(content, p, hasReply) ==
  /\ bus.intents < limit.intents
  /\ LET priority == EmitPriority(p)
         handled == IsGreeting(content)
         e == Len(qorch.events) + 1
         ev == [priority |-> priority, hasReply |-> hasReply, task |-> NoTask,
                queued |-> FALSE]
         w == queueUserIntent([q |-> [qorch EXCEPT !.events = Append(qorch.events, ev)],
                               s |-> sent], e, FALSE)
     IN /\ bus' = [bus EXCEPT !.intents = bus.intents + 1,
                              !.last = [type |-> "user_intent", priority |-> priority,
                                        handled |-> handled]]
        /\ IF handled
           THEN /\ sent' = Send(sent, Message(NoTask, "reflex", hasReply))
                /\ UNCHANGED qorch
           ELSE qorch' = w.q /\ sent' = w.s
  /\ UNCHANGED <<initialized, limit, brain, tm, orch, calls, exec, em, bucket, pipe, lock>>

\* The call a task awaits settles.
QueueSettle(id, res) ==
  /\ qorch.tasks[id].pc \in QueueAwaits
  /\ res = "empty" => qorch.tasks[id].pc = "responding"
  /\ LET w == queueSettle([q |-> qorch, s |-> sent], id, res)
     IN qorch' = w.q /\ sent' = w.s
  /\ UNCHANGED <<initialized, bus, limit, brain, tm, orch, calls, exec, em, bucket, pipe, lock>>

QueueNext ==
  \/ \E content \in Contents, p \in PriorityInputs, hasReply \in limit.sinks :
       QueueIntent(content, p, hasReply)
  \/ \E id \in DOMAIN qorch.tasks, res \in {"ok", "empty", "throw"} : QueueSettle(id, res)
\* -------------------------------------------------------- specifications
BrainNext ==
  \/ \E p \in PriorityInputs, h \in BOOLEAN : Stimulus(p, h)
  \/ Immediate
  \/ \E id \in brain.turns, res \in OracleResults, patch \in BOOLEAN, actions \in Batches :
       DecideReturn(id, res, patch, actions)
  \/ \E a \in Awaited(exec), ok \in BOOLEAN : ActionDone(a, ok)
  \/ Initialize
  \/ Destroy

Limits(b, i, tot, t, c, st, sk) ==
  [brain |-> b, intents |-> i, total |-> tot, tasks |-> t, calls |-> c,
   steps |-> st, sinks |-> sk]

InitCore ==
  /\ BusInit /\ BrainInit /\ TMInit /\ OrchInit /\ ExecInit /\ ActionsInit /\ EMInit
  /\ PipeInit /\ LockInit /\ QueueInit

InitAll == InitCore /\ BucketInit

\* The Brain on its own, from the construction of the TaskExecutor on.
InitBrain ==
  /\ initialized = FALSE /\ limit = Limits(MaxEvents, 0, MaxEvents, 0, 0, 0, {}) /\ InitAll

SpecBrain == InitBrain /\ [][BrainNext]_vars

\* The TaskManager driven through its public methods.
InitTM ==
  /\ initialized = FALSE
  /\ limit = Limits(0, 0, 0, MaxTasks, 0, 0, {})
               @@ [callbacks |-> 0, cancels |-> 0]
  /\ InitAll

SpecTM == InitTM /\ [][TMNext]_vars

\* The TaskExecutor's executePlan driven directly.
InitExec ==
  /\ initialized = FALSE /\ limit = Limits(0, 0, 0, 0, MaxCalls, MaxSteps, {}) /\ InitAll

SpecExec == InitExec /\ [][ExecNext]_vars

\* The Orchestrator with its TaskManager and an initialized TaskExecutor.
InitOrch ==
  /\ initialized = TRUE
  /\ limit = Limits(0, MaxIntents, MaxIntents, 0, 0, MaxSteps, BOOLEAN)
  /\ InitAll

SpecOrch == InitOrch /\ [][OrchNext]_vars

\* The same with room for three tasks.
InitOrchRace ==
  /\ initialized = TRUE
  /\ limit = Limits(0, MaxRaceIntents, MaxRaceIntents, 0, 0, MaxRaceSteps, {FALSE})
  /\ InitAll

SpecOrchRace == InitOrchRace /\ [][OrchNext]_vars

\* One bus feeding the Brain ('stimulus') and Reflex + Orchestrator ('user_intent').
InitBus ==
  /\ initialized = TRUE
  /\ limit = Limits(MaxBusEvents, MaxBusEvents, MaxBusEvents, 0, 0, MaxRaceSteps, BOOLEAN)
  /\ InitAll

BusNext == BrainNext \/ OrchNext

SpecBus == InitBus /\ [][BusNext]_vars

\* The Decision Loop under the scheduling the event loop gives it: a callback
\* scheduled with setImmediate runs, and the oracle, performAction and
\* sendMessage settle every call.
FairBrain ==
  /\ WF_vars(Immediate)
  /\ WF_vars(\E id \in brain.turns, res \in OracleResults, patch \in BOOLEAN,
                actions \in Batches : DecideReturn(id, res, patch, actions))
  /\ WF_vars(\E a \in Awaited(exec), ok \in BOOLEAN : ActionDone(a, ok))

FairSpecBrain == InitBrain /\ [][BrainNext]_vars /\ FairBrain

\* executeActions called directly, with a token or without one, the Brain's
\* listeners attached to the executor.
ActionsNext ==
  \/ \E actions \in Batches, token \in TokenStates : ExecuteActions(actions, token)
  \/ \E n \in DOMAIN exec.tokens : CancelActions(n)
  \/ \E a \in Awaited(exec), ok \in BOOLEAN : ActionDone(a, ok)
  \/ Initialize
  \/ Destroy

InitActions ==
  /\ initialized = FALSE
  /\ limit = Limits(MaxEvents, 0, MaxEvents, 0, 0, 0, {}) @@ [batches |-> MaxBatches]
  /\ InitAll

SpecActions == InitActions /\ [][ActionsNext]_vars

\* The EventManager with any subscriptions, registered and removed at any time.
InitEM ==
  /\ initialized = FALSE
  /\ limit = Limits(0, 0, 0, 0, 0, 0, {}) @@ [subs |-> MaxSubs, emits |-> MaxEmits]
  /\ InitAll

SpecEM == InitEM /\ [][EMNext]_vars

\* One LeakyBucket, ticked and added to in any order.
InitBucket ==
  /\ initialized = FALSE
  /\ limit = Limits(0, 0, 0, 0, 0, 0, {}) @@ [ops |-> MaxBucketOps]
  /\ InitCore
  /\ \E cfg \in BucketConfigs : bucket = newBucket(cfg)

SpecBucket == InitBucket /\ [][BucketNext]_vars

\* The same bucket, added to with any amount, also below zero.
SpecBucketAny == InitBucket /\ [][BucketAnyNext]_vars

\* The PerceptionPipeline with its AttentionDetector, producers calling collect
\* and the frame loop calling tick; observers subscribe to the bus.
InitSenses ==
  /\ initialized = FALSE
  /\ limit = Limits(MaxEvents, 0, MaxEvents, 0, 0, 0, {})
               @@ [collects |-> MaxCollects, ticks |-> MaxTicks, destroys |-> MaxDestroys]
  /\ BusInit /\ BrainInit /\ TMInit /\ OrchInit /\ ExecInit /\ ActionsInit
  /\ PipeInit /\ LockInit /\ QueueInit /\ BucketInit

InitPipe == InitSenses /\ em \in Observed

SpecPipe == InitPipe /\ [][PipeNext]_vars

\* The same pipeline publishing to the bus of the agent.
InitWired == InitSenses /\ em = Wired

SpecWired == InitWired /\ [][PipeNext]_vars

\* The Orchestrator that takes one user intent at a time.
InitLock ==
  /\ initialized = TRUE
  /\ limit = Limits(0, MaxLockIntents, MaxLockIntents, 0, 0, 0, BOOLEAN)
  /\ InitAll

SpecLock == InitLock /\ [][LockNext]_vars

\* The TaskManager after maxHistorySize - 1 tasks were created and completed
\* one after the other.
RECURSIVE pastTasks(_, _)
pastTasks(t, n) ==
  IF n = 0 THEN t
  ELSE LET t1 == createTask(pastTasks(t, n - 1))
       IN completeTask(t1, Len(t1.tasks))

InitTMFull ==
  /\ initialized = FALSE
  /\ limit = Limits(0, 0, 0, maxHistorySize - 1 + MaxTasks, 0, 0, {})
               @@ [callbacks |-> 0, cancels |-> 0]
  /\ BusInit /\ BrainInit /\ OrchInit /\ ExecInit /\ ActionsInit /\ EMInit
  /\ PipeInit /\ LockInit /\ QueueInit /\ BucketInit
  /\ tm = pastTasks(NewTaskManager, maxHistorySize - 1)

SpecTMFull == InitTMFull /\ [][TMNext]_vars

\* The TaskManager and the cancellation tokens of its tasks.
InitTokens ==
  /\ initialized = FALSE
  /\ limit = Limits(0, 0, 0, MaxTokenTasks, 0, 0, {})
               @@ [callbacks |-> MaxCallbacks, cancels |-> MaxCancels]
  /\ InitAll

SpecTokens == InitTokens /\ [][TokenNext]_vars


\* The Reflex layer alone on the bus, user intents of any content.
InitReflex ==
  /\ initialized = FALSE
  /\ limit = Limits(0, MaxReflexIntents, MaxReflexIntents, 0, 0, 0, BOOLEAN)
  /\ InitAll

SpecReflex == InitReflex /\ [][ReflexNext]_vars

\* The Orchestrator when every call a task awaits settles: createPlan,
\* performAction, adjustPlan and the response call return or throw.
OrchSettle(id) ==
  \/ \E plan \in PlanInputs : PlanReturn(id, plan)
  \/ PlanThrow(id)
  \/ \E outcome \in StepOutcomes : PlanStepReturn(id, outcome)
  \/ \E n \in 0..limit.steps : AdjustReturn(id, n)
  \/ AdjustThrow(id)
  \/ \E res \in {"text", "empty", "throw"} : ResponseReturn(id, res)

FairOrch == \A id \in 1..MaxIntents : WF_vars(id \in DOMAIN orch /\ OrchSettle(id))

FairSpecOrch == InitOrch /\ [][OrchNext]_vars /\ FairOrch

\* The Orchestrator that queues user intents behind the current task.
InitQueue ==
  /\ initialized = TRUE
  /\ limit = Limits(0, MaxQueueIntents, MaxQueueIntents, 0, 0, 0, {FALSE})
  /\ InitAll

SpecQueue == InitQueue /\ [][QueueNext]_vars

\* The same when every call a task awaits settles.
FairQueue ==
  \A id \in 1..MaxQueueIntents :
    WF_vars(id \in DOMAIN qorch.tasks /\ \E res \in {"ok", "empty", "throw"} : QueueSettle(id, res))

FairSpecQueue == InitQueue /\ [][QueueNext]_vars /\ FairQueue
\* ----------------------------------------------------------------- claims
\* C1: at most one decision turn (processEvent) is in progress at any time,
\* whatever the interleaving of stimuli, feedback events and oracle returns.
OneTurnAtATime == Cardinality(brain.turns) <= 1

\* A turn is running while two more events wait behind it.
OneTurnWitness == Cardinality(brain.turns) = 1 /\ Len(brain.queue) >= 2

\* C2: decision turns take the events in the order they were enqueued; a
\* higher priority never lets an event overtake one enqueued earlier.
FifoTurns ==
  /\ Len(brain.taken) <= Len(brain.enq)
  /\ \A i \in 1..Len(brain.taken) : brain.taken[i] = brain.enq[i].id

\* Three events were taken and the third had a higher priority than the second.
FifoWitness ==
  /\ Len(brain.taken) >= 3
  /\ brain.enq[3].priority > brain.enq[2].priority

\* C3: an event whose handled flag is set when the Decision Loop's subscriber
\* runs changes nothing in the Brain, the Orchestrator or the TaskManager: it
\* is not enqueued, no turn starts and no task is created.
Delivered == bus'.stimuli + bus'.intents # bus.stimuli + bus.intents

Inhibition ==
  [][/\ (Delivered /\ bus'.last.handled) =>
          /\ brain'.queue = brain.queue /\ brain'.enq = brain.enq
          /\ brain'.turns = brain.turns /\ brain'.taken = brain.taken
          /\ tm' = tm /\ orch' = orch
     /\ \A i \in DOMAIN brain'.enq : ~brain'.enq[i].handled]_vars

\* A handled stimulus and a handled user intent were delivered and nothing
\* was enqueued or created.
InhibitionWitness ==
  /\ bus.stimuli > 0 /\ bus.intents > 0
  /\ bus.last.handled /\ bus.last.type = "stimulus"
  /\ BagCardinality(sent) = bus.intents
  /\ Len(brain.enq) = 0 /\ Len(orch) = 0

\* C4: at most one task holds the primary role, and the primary task is not
\* in the secondary set.
PrimaryHolders == {id \in 1..Len(tm.tasks) : tm.primaryTask = id}

SinglePrimary ==
  /\ Cardinality(PrimaryHolders) <= 1
  /\ PrimaryHolders \cap tm.secondaryTasks = {}

\* A primary and a secondary task are active after an earlier primary task was
\* cancelled and completed.
SinglePrimaryWitness ==
  /\ tm.primaryTask # NoTask
  /\ tm.secondaryTasks # {}
  /\ \E i \in 1..Len(tm.taskHistory) :
        /\ getTaskById(tm, tm.taskHistory[i]) = NoTask
        /\ tm.tasks[tm.taskHistory[i]].isCancelled

\* C5: at most one task is inside TaskExecutor.executePlan at any time.
InExecutePlan == {id \in DOMAIN orch : orch[id].pc = "executing"}

BodyExclusive == Cardinality(InExecutePlan) <= 1

\* C6: when the primary task A is executing and an event of priority >= 8
\* arrives, A becomes cancelling, its token is cancelled, A is archived and
\* the task created for the event is the primary task.
InHistory(t, id) == \E i \in 1..Len(t.taskHistory) : t.taskHistory[i] = id

HighPriorityArrival(a) ==
  /\ tm.primaryTask = a
  /\ tm.tasks[a].status = "executing"
  /\ bus'.intents = bus.intents + 1
  /\ ~bus'.last.handled
  /\ bus'.last.priority >= HIGH_PRIORITY_THRESHOLD

PreemptionPromotes ==
  [][\A a \in DOMAIN orch : HighPriorityArrival(a) =>
        /\ tm'.tasks[a].status = "cancelling"
        /\ tm'.tasks[a].isCancelled
        /\ InHistory(tm', a)
        /\ tm'.primaryTask = Len(tm'.tasks)]_vars

\* C7: when task B obtains a plan that requires action while another task A is
\* primary, B never enters executePlan, B leaves the active tasks in that
\* step, exactly one busy message goes out through B's reply sink (bot.chat
\* without one) and A is left as it was.
Busy(id, hasReply) == CopiesIn(Message(id, "busy", hasReply), sent)

ObtainsActionPlan(b) ==
  /\ orch[b].pc = "planning"
  /\ orch'[b].planned = "action"
  /\ tm.primaryTask \notin {NoTask, b}

Rejected(b) == orch[b].pc = "done" /\ orch[b].outcome = "rejected"

ConflictRejection ==
  [][\A b \in DOMAIN orch :
       /\ ObtainsActionPlan(b) =>
             /\ Rejected(b)'
             /\ tm'.primaryTask = tm.primaryTask
             /\ tm'.tasks[tm.primaryTask] = tm.tasks[tm.primaryTask]
             /\ orch'[tm.primaryTask] = orch[tm.primaryTask]
       /\ Rejected(b)' =>
             /\ orch'[b].execCalls = 0
             /\ getTaskById(tm', b) = NoTask
             /\ Busy(b, orch[b].hasReply)' = 1
             /\ Busy(b, ~orch[b].hasReply)' = 0]_vars

\* B was rejected while the primary task A is inside executePlan.
ConflictRejectionWitness ==
  \E a, b \in DOMAIN orch :
    /\ Rejected(b) /\ orch[b].hasReply
    /\ tm.primaryTask = a /\ orch[a].pc = "executing"

\* C8 as claimed: at most 3 executePlan calls per task; three ActionError
\* failures in a row end the task failed with no further re-plan or execution;
\* two failures and a successful third attempt lead to the response phase.
AE3 == <<"ActionError", "ActionError", "ActionError">>

AE2ok == <<"ActionError", "ActionError", "ok">>

RetryBounded(o) ==
  /\ o.execCalls <= MAX_RETRIES
  /\ o.adjusts <= MAX_RETRIES - 1
  /\ Len(o.attempts) <= o.execCalls

EndsFailed(o) ==
  /\ o.pc = "done" /\ ~o.responding /\ o.planStatus = "failed"
  /\ o.execCalls = MAX_RETRIES /\ o.adjusts = MAX_RETRIES - 1

RetryScenario ==
  \A id \in DOMAIN orch :
    LET o == orch[id]
    IN /\ RetryBounded(o)
       /\ o.attempts = AE3 => EndsFailed(o) /\ o.outcome = "failed"
       /\ o.attempts = AE2ok => o.responding

\* C8 as amended: the same, except that a task whose token was cancelled
\* during the third attempt ends cancelled: without the failure path after a
\* third failure, without the response phase after a third success.
RetryScenarioUnlessCancelled ==
  \A id \in DOMAIN orch :
    LET o == orch[id]
        endsCancelled == o.pc = "done" /\ o.outcome = "cancelled" /\ ~o.responding
                         /\ tm.tasks[id].isCancelled
    IN /\ RetryBounded(o)
       /\ o.attempts = AE3 => EndsFailed(o) /\ (o.outcome = "failed" \/ endsCancelled)
       /\ o.attempts = AE2ok =>
            \/ o.responding /\ (o.pc = "responding" => o.call.plan.status = "completed")
            \/ endsCancelled /\ o.planStatus = "completed"

\* One task failed three times, another failed twice, succeeded and responded.
RetryScenarioWitness ==
  \E a, b \in DOMAIN orch :
    /\ orch[a].attempts = AE3 /\ orch[a].outcome = "failed"
    /\ orch[b].attempts = AE2ok /\ orch[b].outcome = "responded"

\* C9 as claimed: however executePlan exits, plan.status is then completed,
\* failed or cancelled and was assigned exactly once during the call.
ExitStatusTerminal ==
  \A i \in DOMAIN calls :
    Exited(calls[i].c) =>
      /\ calls[i].c.plan.status \in TerminalStatus
      /\ calls[i].c.assigns = 1

\* C9 as amended: that holds for a plan that requires action on an
\* initialized executor; on the two early exits (executor not initialized,
\* plan without action) plan.status is left as it was; never in_progress.
ExitStatusTerminalIfRun ==
  \A i \in DOMAIN calls :
    LET c == calls[i].c
    IN Exited(c) =>
         /\ c.plan.status # "in_progress"
         /\ IF c.init /\ c.plan.requiresAction
            THEN c.plan.status \in TerminalStatus /\ c.assigns = 1
            ELSE c.plan.status = c.status0 /\ c.assigns = 0

\* One call returned with the plan cancelled, another threw with it failed.
ExitStatusWitness ==
  \E i, j \in DOMAIN calls :
    /\ calls[i].c.pos = "returned" /\ calls[i].c.plan.status = "cancelled"
    /\ calls[j].c.pos = "thrown" /\ calls[j].c.plan.status = "failed"

\* C10 as claimed (for a plan of at least one step): steps start in plan
\* order, one at a time; after the token is cancelled no step starts, the plan
\* ends cancelled and the call returns without throwing.
InOrder(c) ==
  /\ c.open <= 1
  /\ \A k \in 1..Len(c.started) : c.started[k] = k

NoStartAfterCancel ==
  \A i \in DOMAIN calls :
    calls[i].isCancelled => calls'[i].c.started = calls[i].c.started

Ran(c) == Exited(c) /\ c.init /\ c.plan.requiresAction

CancelEndsCancelled ==
  [][/\ NoStartAfterCancel
     /\ \A i \in DOMAIN calls' :
          LET c == calls'[i].c
          IN /\ InOrder(c)
             /\ (Ran(c) /\ c.plan.steps > 0 /\ calls'[i].isCancelled) =>
                   c.plan.status = "cancelled" /\ c.pos = "returned"]_vars

\* C10 as amended: the plan ends cancelled, with a normal return, when a poll
\* finds the token cancelled; a cancellation with no poll left (every step
\* started) leaves the plan completed, and a step in flight may still fail.
CancelEndsCancelledAtPoll ==
  [][/\ NoStartAfterCancel
     /\ \A i \in DOMAIN calls' :
          LET c == calls'[i].c
          IN /\ InOrder(c)
             /\ c.plan.status = "cancelled" => calls'[i].isCancelled /\ c.pos = "returned"
             /\ (Ran(c) /\ calls'[i].isCancelled) =>
                   \/ c.pos = "thrown" /\ c.plan.status = "failed"
                   \/ /\ c.pos = "returned" /\ c.plan.status = "cancelled"
                      /\ Len(c.started) < c.plan.steps
                   \/ /\ c.pos = "returned" /\ c.plan.status = "completed"
                      /\ Len(c.started) = c.plan.steps]_vars

\* The token was cancelled during step 1 of 2; step 2 never started.
CancelWitness ==
  \E i \in DOMAIN calls :
    /\ calls[i].c.plan.steps = 2 /\ calls[i].c.started = <<1>>
    /\ calls[i].c.pos = "returned" /\ calls[i].c.plan.status = "cancelled"

\* C11 as claimed: when an executePlan call of a task fails with an error that
\* is not an ActionError, executePlan was called exactly once for the task,
\* no re-plan follows, the plan ends failed and the task is over and no longer
\* among the active tasks.
FatalAt(o) == {k \in 1..Len(o.attempts) : o.attempts[k] = "Error"}

EndsAtFatal(id) ==
  LET o == orch[id]
  IN /\ FatalAt(o) = {Len(o.attempts)}
     /\ o.execCalls = Len(o.attempts)
     /\ o.adjusts = Len(o.attempts) - 1
     /\ o.pc = "done" /\ ~o.responding
     /\ o.outcome \in {"failed", "cancelled"}
     /\ o.planStatus = "failed"
     /\ getTaskById(tm, id) = NoTask

DispatchEvents == {<<"started">>, <<"started", "completed">>, <<"started", "failed">>}

BatchOf(n) == {a \in DOMAIN exec.disp : exec.disp[a].batch = n}

EveryInstructionStarted ==
  /\ \A n \in DOMAIN exec.tokens : Cardinality(BatchOf(n)) = exec.sizes[n]
  /\ \A a \in DOMAIN exec.disp :
       IF exec.disp[a].events = <<>>
       THEN exec.tokens[exec.disp[a].batch] = "cancelled"
       ELSE exec.disp[a].events \in DispatchEvents

SettlesAlone(a) ==
  /\ a \in Awaited(exec)
  /\ exec'.disp[a].events \in DispatchEvents \ {<<"started">>}
  /\ \A b \in DOMAIN exec.disp \ {a} : exec'.disp[b] = exec.disp[b]

Emitted(kind) ==
  Cardinality({a \in DOMAIN exec.disp :
                 Len(exec.disp[a].events) = 2 /\ exec.disp[a].events[2] = kind})

Feedback(status) ==
  Cardinality({i \in DOMAIN brain.enq :
                 brain.enq[i].type = "feedback" /\ brain.enq[i].status = status})

TurnOf(i) == {k \in DOMAIN brain.taken : brain.taken[k] = i}

OneFeedbackEach ==
  /\ Feedback("success") = Emitted("completed")
  /\ Feedback("failure") = Emitted("failed")
  /\ \A i \in DOMAIN brain.enq : Cardinality(TurnOf(i)) <= 1

TurnEnds == brain'.turns # brain.turns /\ Cardinality(brain'.turns) < Cardinality(brain.turns)

OracleFailureEndsTurn ==
  [][(TurnEnds /\ brain'.oracle = "failed") =>
        /\ exec' = exec
        /\ brain'.goal = brain.goal
        /\ ~brain'.rejected
        /\ ~brain'.isProcessing
        /\ Len(brain'.queue) > 0 => brain'.immediates = brain.immediates + 1]_vars

\* C15: when a task ends because executePlan failed with a non-recoverable
\* error or the retry budget ran out, an apology goes to the task's reply sink,
\* or to the chat when the source has none.
Apology(id, hasReply) == CopiesIn(Message(id, "apology", hasReply), sent)

ExecutionFailed(o) ==
  /\ o.pc = "done" /\ o.outcome = "failed"
  /\ Len(o.attempts) > 0
  /\ o.attempts[Len(o.attempts)] \in {"Error", "ActionError"}

ApologyOnFailure ==
  \A id \in DOMAIN orch :
    ExecutionFailed(orch[id]) => Apology(id, orch[id].hasReply) >= 1

\* C16: when the Reflex subscriber throws while handling an event, every
\* Decision Loop subscription for the event (its kind or the wildcard) is
\* still invoked for it.
Emitting == em'.emits = em.emits + 1

Matching == {i \in DOMAIN em.subs : em.subs[i].kind \in {em'.last.type, "*"}}

Calls(n) == {k \in DOMAIN em'.last.log : em'.last.log[k].n = n}

ReflexThrew ==
  /\ Emitting /\ em'.last.threw
  /\ em'.last.log[Len(em'.last.log)].who = "reflex"

ReflexThrowIsolated ==
  [][ReflexThrew =>
       \A i \in Matching : em.subs[i].who = "decision" => Calls(em.subs[i].n) # {}]_vars

\* C17: on every emit(e) each subscription for e's kind and each wildcard
\* subscription is invoked exactly once, and no other subscription is invoked.
DeliversOnce ==
  [][Emitting =>
       \A i \in DOMAIN em.subs :
         Cardinality(Calls(em.subs[i].n)) = IF i \in Matching THEN 1 ELSE 0]_vars

\* C18: on every emit(e) the subscribers are invoked in the order their
\* subscriptions were registered, kind and wildcard subscriptions taken
\* together, all of them before emit returns.
RegistrationOrder ==
  [][Emitting =>
       \A j, k \in DOMAIN em'.last.log :
         j < k => em'.last.log[j].n < em'.last.log[k].n]_vars

\* C19: every subscriber invoked by emit(e) sees e.priority = 0 when e was
\* emitted without a priority and the given priority otherwise.
PriorityObserved ==
  \A k \in DOMAIN em.last.log :
    em.last.log[k].priority =
      IF em.last.given = NoPriority THEN DefaultPriority ELSE em.last.given

\* An event without priority went to a kind subscriber and a wildcard
\* subscriber, after an event with priority 8 had been emitted.
PriorityObservedWitness ==
  /\ em.emits = 2 /\ em.last.given = NoPriority
  /\ \E j, k \in DOMAIN em.last.log :
       em.last.log[j].kind = em.last.type /\ em.last.log[k].kind = "*"

\* C20: add returns fired = true exactly when the value was below trigger
\* before the call and is at or above it after; so after an add that fired no
\* add fires until a tick has brought the value back below trigger.
Adding == bucket'.adds = bucket.adds + 1

EdgeTriggered ==
  [][Adding =>
       /\ bucket'.last.fired <=>
            (bucket.value < bucket.cfg.trigger /\ bucket'.value >= bucket.cfg.trigger)
       /\ (bucket'.last.fired /\ bucket.fires > 0) => bucket.dipped]_vars

\* The example: add(3) fired, a further add did not, tick(1000) leaked 2 and
\* add(2) fired again.
EdgeTriggeredWitness ==
  /\ bucket.cfg = DetectorConfig
  /\ bucket.fires = 2 /\ bucket.adds = 3 /\ bucket.ops = 4
  /\ bucket.last = [amount |-> 2 * PerUnit, before |-> PerUnit + 1,
                    after |-> 3 * PerUnit + 1, fired |-> TRUE]

\* ========================================================= claims C21..C30
\* C21 (as stated): after any sequence of tick(deltaMs) and add(amount), for
\* any deltaMs and any amount, 0 <= value <= capacity.
InRange(b) == 0 <= b.value /\ b.value <= b.cfg.capacity

ValueInRange == InRange(bucket)

\* C21 (amended): the bucket starts within 0..capacity, and every tick, for
\* any deltaMs, and every add of an amount that is not negative keeps the
\* value within 0..capacity.
RangeKept ==
  [][(InRange(bucket) /\ (Adding => bucket'.last.amount >= 0)) => InRange(bucket')]_vars

\* An add that was cut at capacity, and a tick that was cut at 0 before it.
RangeKeptWitness ==
  /\ bucket.last.amount >= 0
  /\ bucket.last.before + bucket.last.amount > bucket.cfg.capacity
  /\ bucket.value = bucket.cfg.capacity
  /\ bucket.last.before = 0
  /\ bucket.ops >= 3

\* C22: ingest publishes a noticed event exactly when the bucket of the raw
\* event's key fired on this add of weight 1; the event carries the raw event
\* and the bucket's value after the add as its intensity.
NoticedOf(key) == SelectSeq(pipe.noticed, LAMBDA n : keyOf(n.raw) = key)

IngestedOf(key) == SelectSeq(pipe.ingested, LAMBDA e : keyOf(e) = key)

Last(s) == s[Len(s)]

PublishesOnFire ==
  /\ \A e \in Shapes : keyOf(e) \in DOMAIN pipe.buckets <=> Len(IngestedOf(keyOf(e))) > 0
  /\ \A key \in DOMAIN pipe.buckets :
       LET b == pipe.buckets[key]
       IN /\ b.adds = Len(IngestedOf(key))
          /\ b.last.amount = weight * PerUnit
          /\ b.fires = Len(NoticedOf(key))
          /\ b.last.fired =>
               /\ Last(NoticedOf(key)).raw = Last(IngestedOf(key))
               /\ Last(NoticedOf(key)).intensity = b.last.after
          /\ (~b.last.fired /\ b.fires > 0) =>
               Last(NoticedOf(key)).raw # Last(IngestedOf(key))

\* Two raw events of one key left it silent and the third was published with
\* the intensity 3.
PublishesOnFireWitness ==
  \E key \in DOMAIN pipe.buckets :
    /\ Len(IngestedOf(key)) = 3
    /\ Len(NoticedOf(key)) = 1
    /\ pipe.buckets[key].last.fired
    /\ Last(NoticedOf(key)).intensity = trigger * PerUnit

\* C23: on an initialized pipeline every collected event is ingested exactly
\* once, in collection order, or still waits in the buffer; a tick ingests
\* all that was collected before it, also what was collected while the
\* previous tick ingested its batch, and leaves what is collected during it.
Ticking == pipe'.ticks = pipe.ticks + 1 /\ pipe.initialized

ExactlyOnceInOrder ==
  /\ [](pipe.destroys = 0 => pipe.collected = pipe.ingested \o pipe.queue)
  /\ [][(Ticking /\ pipe.destroys = 0) =>
          /\ pipe'.ingested = pipe.collected
          /\ pipe'.last.batch = pipe.queue
          /\ pipe'.collected = pipe.collected \o pipe'.queue]_vars

\* The second tick ingested an event that a listener collected while the
\* first tick ingested its batch.
ExactlyOnceWitness ==
  /\ pipe.destroys = 0
  /\ pipe.ticks = 2
  /\ \E i \in DOMAIN pipe.last.batch : pipe.last.batch[i].frame = 0
  /\ pipe.ingested = pipe.collected

\* C24: when ingest throws for one drained event, tick still ingests the
\* remaining events of the batch and returns normally.
BatchDone ==
  LET n == Len(pipe.last.batch)
      m == Len(pipe.ingested)
  IN /\ n <= m
     /\ SubSeq(pipe.ingested, m - n + 1, m) = pipe.last.batch

FaultIsolated == BatchDone /\ ~pipe.last.threw

\* A listener threw for an event that was not the last of its batch, and the
\* events after it were ingested.
FaultIsolatedWitness ==
  /\ pipe.last.caught > 0
  /\ \E i \in DOMAIN pipe.last.batch :
       /\ i < Len(pipe.last.batch)
       /\ Last(pipe.noticed).raw = pipe.last.batch[i]
       /\ Last(pipe.noticed).threw
  /\ Last(pipe.ingested) = Last(pipe.last.batch)

\* C25: createTask makes the new task primary exactly when there is no
\* primary task; otherwise the new task joins the secondary set and the
\* primary task is left as it is.  The new task is idle, its token not cancelled.
Creating == Len(tm'.tasks) = Len(tm.tasks) + 1

CreateRole ==
  [][Creating =>
       LET id == Len(tm'.tasks)
       IN /\ tm'.tasks[id].status = "idle"
          /\ ~tm'.tasks[id].isCancelled
          /\ (tm'.primaryTask = id) <=> (tm.primaryTask = NoTask)
          /\ tm.primaryTask = NoTask => tm'.secondaryTasks = tm.secondaryTasks
          /\ tm.primaryTask # NoTask =>
               /\ tm'.primaryTask = tm.primaryTask
               /\ tm'.tasks[tm.primaryTask] = tm.tasks[tm.primaryTask]
               /\ tm'.secondaryTasks = tm.secondaryTasks \cup {id}
               /\ id \notin tm.secondaryTasks]_vars

\* The third task became primary while the second was a secondary task, and
\* the second had become secondary under the first.
CreateRoleWitness ==
  /\ Len(tm.tasks) = 3
  /\ tm.primaryTask = 3
  /\ tm.secondaryTasks = {2}
  /\ tm.tasks[3].status = "idle"

\* C26: cancelTask on an active task sets its status to cancelling, sets
\* isCancelled, calls every callback registered with the token and archives
\* the task; the task keeps its slot and its plan, and no call under way is
\* touched.
Archived(t, id) == \E i \in DOMAIN t.taskHistory : t.taskHistory[i] = id

CancelEffect ==
  [][\A id \in DOMAIN tm.tasks :
       (getTaskById(tm, id) # NoTask /\ tm' = cancelTask(tm, id)) =>
         /\ tm'.tasks[id].status = "cancelling"
         /\ tm'.tasks[id].isCancelled
         /\ Len(tm'.tasks[id].runs) = Len(tm.tasks[id].runs)
         /\ \A i \in DOMAIN tm.tasks[id].runs :
              tm'.tasks[id].runs[i] = tm.tasks[id].runs[i] + 1
         /\ Archived(tm', id)
         /\ tm'.primaryTask = tm.primaryTask
         /\ tm'.secondaryTasks = tm.secondaryTasks
         /\ tm'.tasks[id].hasPlan = tm.tasks[id].hasPlan
         /\ \A other \in DOMAIN tm.tasks \ {id} : tm'.tasks[other] = tm.tasks[other]
         /\ UNCHANGED <<orch, calls, exec>>]_vars

\* A secondary task with a callback was cancelled once and is still a
\* secondary task.
CancelEffectWitness ==
  \E id \in DOMAIN tm.tasks :
    /\ id \in tm.secondaryTasks
    /\ tm.tasks[id].runs = <<1>>
    /\ tm.tasks[id].status = "cancelling"
    /\ tm.tasks[id].isCancelled
    /\ Archived(tm, id)

\* C27: cancelling a task whose token is already cancelled calls no callback
\* again: every callback runs at most once over the life of the token.
CallbackOnce ==
  \A id \in DOMAIN tm.tasks : \A i \in DOMAIN tm.tasks[id].runs : tm.tasks[id].runs[i] <= 1

\* C28: the history never holds more than maxHistorySize tasks; archiving
\* into a full history evicts the oldest entry; completeTask archives the
\* task and clears its primary or secondary slot.
HistoryRing ==
  /\ [](Len(tm.taskHistory) <= maxHistorySize)
  /\ [][tm'.taskHistory # tm.taskHistory =>
          \E id \in DOMAIN tm.tasks :
            /\ ~Archived(tm, id)
            /\ tm'.taskHistory = IF Len(tm.taskHistory) = maxHistorySize
                                 THEN Append(Tail(tm.taskHistory), id)
                                 ELSE Append(tm.taskHistory, id)]_vars
  /\ [][\A id \in DOMAIN tm.tasks :
          (getTaskById(tm, id) # NoTask /\ tm' = completeTask(tm, id)) =>
            /\ Archived(tm', id)
            /\ getTaskById(tm', id) = NoTask
            /\ tm.primaryTask = id =>
                 tm'.primaryTask = NoTask /\ tm'.secondaryTasks = tm.secondaryTasks
            /\ tm.primaryTask # id =>
                 tm'.primaryTask = tm.primaryTask /\ tm'.secondaryTasks = tm.secondaryTasks \ {id}
            /\ tm'.tasks = tm.tasks]_vars

\* The eleventh task was completed and archived into a full history: the
\* first task left it.
HistoryRingWitness ==
  /\ Len(tm.taskHistory) = maxHistorySize
  /\ tm.taskHistory[1] = 2
  /\ tm.taskHistory[maxHistorySize] = maxHistorySize + 1
  /\ getTaskById(tm, maxHistorySize + 1) = NoTask

\* C29: every noticed event the Attention Detector publishes is delivered on
\* the bus to the Reflex layer and then to the Decision Loop, which enqueues
\* it for a decision turn (no Reflex marks it handled).
ReflexThenDecision(log) ==
  \E i, j \in DOMAIN log : i < j /\ log[i].who = "reflex" /\ log[j].who = "decision"

NoticedReachesBrain ==
  \A i \in DOMAIN pipe.noticed :
    /\ ReflexThenDecision(pipe.noticed[i].log)
    /\ pipe.noticed[i].enqueued

\* C30: at most one user intent is between plan and respond at any time; the
\* isProcessing lock is held exactly while one is, it is released when the
\* intent's processing ends, in success and in error, and an intent that
\* arrives while none is processed is accepted.
InPipeline == {j \in DOMAIN lock.jobs : lock.jobs[j].pc \in Awaiting}

Arriving == Len(lock'.jobs) = Len(lock.jobs) + 1

OneIntentAtATime ==
  /\ [](Cardinality(InPipeline) <= 1 /\ (lock.isProcessing <=> InPipeline # {}))
  /\ [][\A j \in InPipeline : lock'.jobs[j].pc = "done" => ~lock'.isProcessing]_vars
  /\ [][(Arriving /\ lock'.jobs[Len(lock'.jobs)].pc # "inhibited") =>
          (lock'.jobs[Len(lock'.jobs)].pc = "planning" <=> InPipeline = {})]_vars

\* The first intent ended in an error while the second was skipped; the third
\* was accepted.
OneIntentWitness ==
  /\ Len(lock.jobs) = 3
  /\ lock.jobs[1].outcome = "error"
  /\ lock.jobs[2].pc = "skipped"
  /\ lock.jobs[3].pc = "planning"


\* ========================================================= claims C31..C40
\* C31: the status of a task only moves forward along idle, planning,
\* executing, responding (executing may be skipped), cancelling can follow any
\* of them, and a task that is cancelling never becomes planning, executing or
\* responding again, whatever the interleaving of the cancellation with the
\* task's awaited calls.
StatusSteps ==
  {<<"idle", "planning">>, <<"planning", "executing">>, <<"planning", "responding">>,
   <<"executing", "responding">>}

StatusForward ==
  [][/\ \A id \in DOMAIN tm.tasks :
          LET a == tm.tasks[id].status
              b == tm'.tasks[id].status
          IN a # b => IF a = "cancelling" THEN FALSE
                      ELSE b = "cancelling" \/ <<a, b>> \in StatusSteps
     /\ \A id \in DOMAIN tm'.tasks \ DOMAIN tm.tasks :
          tm'.tasks[id].status \in {"idle", "planning"}]_vars

\* A task was cancelled while it waited for a call; the call returned, the
\* task ended and its status is still cancelling.
StatusForwardWitness ==
  \E id \in DOMAIN orch :
    /\ tm.tasks[id].status = "cancelling"
    /\ orch[id].outcome = "cancelled"
    /\ orch[id].execCalls > 0

\* C32: once the token of a task is cancelled, no message is sent on behalf
\* of that task, neither a response nor a busy notice; the result of the call
\* that was awaited when the cancellation came is dropped when it returns.
NoSendAfterCancel ==
  [][\A id \in DOMAIN tm.tasks :
       tm.tasks[id].isCancelled =>
         \A m \in BagToSet(sent') : m.task = id => CopiesIn(m, sent') = CopiesIn(m, sent)]_vars

\* A task was cancelled while the response call was awaited; the call
\* returned, the task ended as cancelled and nothing was sent for it.
NoSendAfterCancelWitness ==
  \E id \in DOMAIN orch :
    /\ tm.tasks[id].isCancelled
    /\ orch[id].responding
    /\ orch[id].outcome = "cancelled"
    /\ \A m \in BagToSet(sent) : m.task # id

\* C33: for a content that is 'hi' or 'hello' in any casing with whitespace
\* around it, the Reflex handler sends exactly one reply, through source.reply
\* when the source has one and through the chat otherwise, and has set
\* handled when it returns, all in one synchronous step; for every other
\* content it sends nothing and leaves handled unset.
Word(text) ==
  toLowerCase(text) \in {<<"h", "i">>, <<"h", "e", "l", "l", "o">>}

Greets(content) ==
  \E i \in 0..Len(content), j \in 0..Len(content) :
    /\ i <= j
    /\ \A k \in 1..i : content[k] \in Whitespace
    /\ \A k \in (j + 1)..Len(content) : content[k] \in Whitespace
    /\ Word(SubSeq(content, i + 1, j))

ReflexReplies ==
  [][(bus'.intents = bus.intents + 1 /\ ~bus'.last.threw) =>
       IF Greets(bus'.last.content)
       THEN /\ sent' = Send(sent, Message(NoTask, "reflex", bus'.last.hasReply))
            /\ bus'.last.handled
       ELSE sent' = sent /\ ~bus'.last.handled]_vars

\* 'hello' with upper-case letters and whitespace on both sides, from a source without a reply sink
\* was answered once in the chat.
ReflexRepliesWitness ==
  /\ bus.last.handled
  /\ ~bus.last.hasReply
  /\ Len(bus.last.content) = 5 + 2 * MaxPad
  /\ toLowerCase(bus.last.content) # bus.last.content
  /\ sent = SetToBag({Message(NoTask, "reflex", FALSE)})

\* C34: one PerceptionPipeline.tick publishes at most one noticed event per
\* attention key, however many raw events of that key its batch holds, and
\* the bucket of a key is changed by the leak of the tick and by the raw
\* events of that key only, never by raw events of another key.
NoticedBy(p, key) == SelectSeq(p.noticed, LAMBDA n : keyOf(n.raw) = key)

CountIn(batch, key) == Len(SelectSeq(batch, LAMBDA e : keyOf(e) = key))

RECURSIVE Filled(_, _)
Filled(b, n) == IF n = 0 THEN b ELSE add(Filled(b, n - 1), weight * PerUnit)

BucketBefore(key) ==
  IF key \in DOMAIN pipe.buckets THEN pipe.buckets[key] ELSE newBucket(DetectorConfig)

OnePerKey ==
  [][Ticking =>
       /\ \A e \in Shapes :
            Len(NoticedBy(pipe', keyOf(e))) <= Len(NoticedBy(pipe, keyOf(e))) + 1
       /\ \E deltaMs \in FrameDeltas : \A key \in DOMAIN pipe'.buckets :
            pipe'.buckets[key].value =
              Filled(tick(BucketBefore(key), deltaMs), CountIn(pipe'.last.batch, key)).value]_vars

\* A tick ingested four raw events of one key and published one noticed
\* event for it.
OnePerKeyWitness ==
  \E key \in DOMAIN pipe.buckets :
    /\ pipe.ticks = 1
    /\ CountIn(pipe.last.batch, key) = 4
    /\ Len(NoticedBy(pipe, key)) = 1
    /\ pipe.buckets[key].value = 4 * PerUnit

\* C35: tick(deltaMs) with deltaMs <= 0 leaves the value as it is; with
\* deltaMs > 0 the value becomes max(0, value - leakPerMs * deltaMs); hence a
\* tick never raises the value and never fires.
TickLeaks ==
  \A deltaMs \in Deltas :
    LET b == tick(bucket, deltaMs)
        leaked == bucket.value - bucket.cfg.leakPerMs * deltaMs
    IN /\ deltaMs <= 0 => b.value = bucket.value
       /\ deltaMs > 0 => /\ b.value \in {0, leaked}
                         /\ b.value >= 0 /\ b.value >= leaked
       /\ b.value <= bucket.value
       /\ b.fires = bucket.fires /\ b.last = bucket.last /\ b.adds = bucket.adds

\* The bucket fired, and ticks brought the value below trigger and then to
\* the floor 0, which the last leak would have passed.
TickLeaksWitness ==
  /\ bucket.fires = 1
  /\ bucket.dipped
  /\ bucket.value = 0
  /\ bucket.adds = 1
  /\ bucket.last.after % (bucket.cfg.leakPerMs * 1000) # 0

\* C36: a collect call on a pipeline that is not initialized (before init,
\* after destroy) leaves the buffer as it is, so its event is never ingested;
\* destroy empties the buffer and a tick ingests what the buffer holds and
\* nothing else, so an event buffered before a destroy is never ingested
\* after a later init.
Collecting == pipe'.offered = pipe.offered + 1 /\ pipe'.ticks = pipe.ticks

Fresh == SubSeq(pipe'.ingested, Len(pipe.ingested) + 1, Len(pipe'.ingested))

DiscardsWhenDown ==
  /\ [](~pipe.initialized => pipe.queue = <<>>)
  /\ [][(Collecting /\ ~pipe.initialized) =>
          /\ pipe'.queue = pipe.queue
          /\ pipe'.collected = pipe.collected]_vars
  /\ [][pipe'.destroys = pipe.destroys + 1 =>
          /\ pipe'.queue = <<>> /\ ~pipe'.initialized
          /\ pipe'.ingested = pipe.ingested]_vars
  /\ [][Fresh # <<>> =>
          /\ pipe.initialized /\ Fresh = pipe.queue
          /\ \A i \in DOMAIN Fresh : Fresh[i].live]_vars

\* The first event was offered before init, the second was buffered and lost
\* in destroy, the third was collected after the second init and ingested.
DiscardsWitness ==
  /\ pipe.destroys = 1
  /\ pipe.offered = 3
  /\ Len(pipe.collected) = 2
  /\ pipe.collected[1].id = 2
  /\ pipe.ingested = <<pipe.collected[2]>>
  /\ pipe.queue = <<>>

TasksLeave ==
  /\ \A id \in 1..MaxIntents : (id \in DOMAIN tm.tasks) ~> (getTaskById(tm, id) = NoTask)
  /\ [](\A id \in DOMAIN orch : orch[id].pc = "done" => getTaskById(tm, id) = NoTask)

\* The primary task was cancelled by a high-priority event and the task of
\* that event was rejected; both calls ended and no task is active.
TasksLeaveWitness ==
  /\ Len(orch) = 2
  /\ orch[1].outcome = "cancelled" /\ tm.tasks[1].isCancelled
  /\ orch[2].outcome = "rejected"
  /\ tm.primaryTask = NoTask /\ tm.secondaryTasks = {}

\* C39: in the queueing Orchestrator every event that was queued behind the
\* current task eventually gets its task once the tasks ahead of it have
\* ended, without any further incoming event, also when two or more events
\* wait in the queue.
Queued(e) == e \in DOMAIN qorch.events /\ qorch.events[e].queued

HasTask(e) == e \in DOMAIN qorch.events /\ qorch.events[e].task # NoTask

QueuedGetsTask == \A e \in 1..MaxQueueIntents : Queued(e) ~> HasTask(e)

\* C40: when a high-priority event preempts the current task, the clean-up of
\* the preempted task, which comes later, archives and clears that task only:
\* the task of the high-priority event stays the current task until its own
\* processing ends, so that no third task starts alongside it.
Running(id) == qorch.tasks[id].pc # "done" /\ ~qorch.tasks[id].isCancelled

PreemptorStaysCurrent ==
  /\ \A id \in DOMAIN qorch.tasks :
       (qorch.tasks[id].preempted # NoTask /\ Running(id)) => qorch.currentTask = id
  /\ Cardinality({id \in DOMAIN qorch.tasks : Running(id)}) <= 1
====
